---------------------------- MODULE Spec2Model ----------------------------
(***************************************************************************)
(* Model of the render-resource allocation engine of PyGL3Display:         *)
(*   - Slices (slices.py): the number-line allocator;                      *)
(*   - GL3Client (infrastructure.py): the per-layer index-list records     *)
(*     with their deferred housekeeping (clean).                           *)
(***************************************************************************)
EXTENDS Integers, Naturals, Sequences, FiniteSets, Bags, TLC

(***************************************************************************)
(* Bounds of the model.                                                    *)
(***************************************************************************)
\* end of the number line handed to Slices(start, end) in the allocator model
End == 4
\* number of calls made on the allocator in one behaviour
MaxOps == 9

\* start of the number line: every Slices in the library is Slices(0, ...)
Start == 0

\* Python's None, for the integer-valued field Slices.allocating
None == -1

Domain == Start .. (End - 1)
DomainSize == End - Start

(***************************************************************************)
(* Small helpers over sets and sequences (Python builtins).                *)
(***************************************************************************)
\* min(numbers)
Min(S) == CHOOSE x \in S : \A y \in S : x <= y
\* max(numbers)
Max(S) == CHOOSE x \in S : \A y \in S : x >= y
\* the elements of a Python list
Range(s) == {s[i] : i \in DOMAIN s}
\* the lists that hold the elements of S once each, in any order
Perms(S) == {f \in [1 .. Cardinality(S) -> S] : \A i, j \in DOMAIN f : f[i] = f[j] => i = j}
\* xrange(b, b + n) as a list
XRange(b, n) == [i \in 1 .. n |-> b + i - 1]

(***************************************************************************)
(* Slices (slices.py).  A Slices object is modelled as the record          *)
(*   slices     : the list self.slices; each element is a two-item list    *)
(*                [b, e] and carries the flag f, TRUE for the list object  *)
(*                self.foundSlice refers to;                               *)
(*   allocating : self.allocating (None or the cached n);                  *)
(*   lost       : <<>> or, when self.foundSlice refers to a list object    *)
(*                that join() has popped from self.slices, that object.    *)
(***************************************************************************)
\* Slices.__init__
NewSlices(start, end) ==
  [slices |-> << [b |-> start, e |-> end, f |-> FALSE] >>,
   allocating |-> None,
   lost |-> << >>]

\* the integers covered by a list of ranges
FreeSet(s) == UNION {s[i].b .. (s[i].e - 1) : i \in DOMAIN s}
\* the list of ranges without the foundSlice flag
Ranges(s) == [i \in DOMAIN s |-> << s[i].b, s[i].e >>]

\* list comparison [b, e] < [b', e'] used by list.sort()
SliceLt(x, y) == x.b < y.b \/ (x.b = y.b /\ x.e < y.e)

\* position at which the stable sort puts x into the sorted list s
InsertPos(s, x) ==
  IF \E i \in DOMAIN s : SliceLt(x, s[i])
    THEN Min({i \in DOMAIN s : SliceLt(x, s[i])})
    ELSE Len(s) + 1

InsertSorted(s, x) ==
  LET p == InsertPos(s, x)
  IN  SubSeq(s, 1, p - 1) \o << x >> \o SubSeq(s, p, Len(s))

RECURSIVE SortFrom(_, _)
SortFrom(done, rest) ==
  IF rest = << >> THEN done
  ELSE SortFrom(InsertSorted(done, Head(rest)), Tail(rest))

\* slices.sort(): stable, ascending on [b, e]
SortSlices(s) == SortFrom(<< >>, s)

\* the while loop of join(); indx is Python's indx, s[indx] is slices[indx-1]
RECURSIVE JoinLoop(_, _, _)
JoinLoop(s, indx, lost) ==
  IF indx < Len(s)
    THEN IF s[indx].e = s[indx + 1].b
           THEN JoinLoop(
                  SubSeq(s, 1, indx - 1)
                    \o << [s[indx] EXCEPT !.e = s[indx + 1].e] >>
                    \o SubSeq(s, indx + 2, Len(s)),
                  indx,
                  IF s[indx + 1].f
                    THEN << [b |-> s[indx + 1].b, e |-> s[indx + 1].e] >>
                    ELSE lost)
           ELSE JoinLoop(s, indx + 1, lost)
    ELSE [slices |-> s, lost |-> lost]

\* Slices.join
Join(S) ==
  LET r == JoinLoop(SortSlices(S.slices), 1, S.lost)
  IN  [S EXCEPT !.slices = r.slices, !.lost = r.lost]

\* canAllocate accepting a range of exactly n integers
FitsAtLeast(slice, n) == slice.e - slice.b >= n

\* the test of the for loops of canAllocate
Fits(slice, n) == slice.e - slice.b > n

\* first slice of the list that passes the test, 0 when none does
FirstFit(s, n) ==
  IF \E i \in DOMAIN s : Fits(s[i], n)
    THEN Min({i \in DOMAIN s : Fits(s[i], n)})
    ELSE 0

\* self.allocating = n; self.foundSlice = slice
SetFound(S, i, n) ==
  [slices |-> [k \in DOMAIN S.slices |-> [S.slices[k] EXCEPT !.f = (k = i)]],
   allocating |-> n,
   lost |-> << >>]

\* Slices.canAllocate: the value returned and the object afterwards
CanAllocate(S, n) ==
  IF FirstFit(S.slices, n) # 0
    THEN [ret |-> TRUE, obj |-> SetFound(S, FirstFit(S.slices, n), n)]
    ELSE LET J == Join(S)
         IN  IF FirstFit(J.slices, n) # 0
               THEN [ret |-> TRUE, obj |-> SetFound(J, FirstFit(J.slices, n), n)]
               ELSE [ret |-> FALSE, obj |-> J]

\* index in self.slices of the object self.foundSlice refers to, 0 when the
\* object is not in the list
FoundIdx(s) ==
  IF \E i \in DOMAIN s : s[i].f
    THEN CHOOSE i \in DOMAIN s : s[i].f
    ELSE 0

\* self.foundSlice[0]
FoundBegin(S) ==
  IF S.lost # << >> THEN S.lost[1].b ELSE S.slices[FoundIdx(S.slices)].b

\* allocate without line 58: the found range keeps its begin
CarveNoAdvance(S, n) ==
  [raised |-> FALSE,
   ret |-> XRange(FoundBegin(S), n),
   obj |-> [slices |-> [k \in DOMAIN S.slices |-> [S.slices[k] EXCEPT !.f = FALSE]],
            allocating |-> None,
            lost |-> << >>]]

\* allocate carving the n integers from the high end of the found range
CarveHighEnd(S, n) ==
  [raised |-> FALSE,
   ret |-> XRange((IF S.lost # << >> THEN S.lost[1].e
                   ELSE S.slices[FoundIdx(S.slices)].e) - n, n),
   obj |-> [slices |-> [k \in DOMAIN S.slices |->
                          IF S.slices[k].f
                            THEN [b |-> S.slices[k].b, e |-> S.slices[k].e - n, f |-> FALSE]
                            ELSE S.slices[k]],
            allocating |-> None,
            lost |-> << >>]]

\* lines 57-61 of allocate: carve n integers from the low end of foundSlice
Carve(S, n) ==
  [raised |-> FALSE,
   ret |-> XRange(FoundBegin(S), n),
   obj |-> [slices |-> [k \in DOMAIN S.slices |->
                          IF S.slices[k].f
                            THEN [b |-> S.slices[k].b + n, e |-> S.slices[k].e, f |-> FALSE]
                            ELSE S.slices[k]],
            allocating |-> None,
            lost |-> << >>]]

\* allocate that raises whenever no canAllocate(n) result is cached
AllocateNoRetry(S, n) ==
  IF n # S.allocating
    THEN [raised |-> TRUE, ret |-> << >>, obj |-> S]
    ELSE Carve(S, n)

\* Slices.allocate: raised, the list returned and the object afterwards
Allocate(S, n) ==
  IF n # S.allocating
    THEN LET c == CanAllocate(S, n)
         IN  IF c.ret THEN Carve(c.obj, n)
             ELSE [raised |-> TRUE, ret |-> << >>, obj |-> c.obj]
    ELSE Carve(S, n)

\* the test of release: the numbers form one contiguous block
Contiguous(numbers) == Len(numbers) - 1 = Max(Range(numbers)) - Min(Range(numbers))

\* release that always gives back the block from min to max
ReleaseAsBlock(S, numbers) ==
  [S EXCEPT !.slices = Append(@, [b |-> Min(Range(numbers)),
                                  e |-> Max(Range(numbers)) + 1,
                                  f |-> FALSE])]

\* Slices.release
Release(S, numbers) ==
  IF Contiguous(numbers)
    THEN [S EXCEPT !.slices = Append(@, [b |-> Min(Range(numbers)),
                                         e |-> Max(Range(numbers)) + 1,
                                         f |-> FALSE])]
    ELSE [S EXCEPT !.slices = @ \o [i \in DOMAIN numbers |->
                                      [b |-> numbers[i], e |-> numbers[i] + 1, f |-> FALSE]]]

(***************************************************************************)
(* GL3Client (infrastructure.py).  self.layers maps a vertex-array region   *)
(* to a dict from layer to layerData; layerData holds the list of          *)
(* index-list records made by makeLayerIndices.  A record is               *)
(*   indices [0], min [1], len [2], slots [3], allocated [4], dirty [5],   *)
(*   pending [6], startAddress [7] (as a byte offset from the array base). *)
(***************************************************************************)
\* int(vertexArrays.noSlots * vertexArrays.slotMultiplier) of the model's region
IndicesLength == 4
\* number of calls made on the client in one behaviour
MaxClientOps == 5
\* number of calls after which callers stop uploading with arguments of their choice
MaxUploadOps == 3
\* VertexArrays.sizeOfIndices
SizeOfIndices == 4

\* the vertex-array regions and the layers the callers use
Regions == {"va"}
Layers == {0, 1}
\* the first vertex index of a shape's geometry: a shape uploads consecutive
\* vertex indices, one per render slot, counted from its first vertex
DataValues == {1, 2}

\* len(layerData): layerData is the four-item list built by makeLayer
LayerDataLen == 4

\* what a caller may pass to uploadSlotData: a region the client has never
\* seen, slot lists (the empty one included) and list indices from -1 up to
\* the length of layerData
OtherRegion == "vb"
UploadSlots == {<< >>, << 0 >>, << 1, 2 >>}
UploadIndices == {-1, 0, 1, LayerDataLen}

\* makeLayerIndices: a new index-list record
NewLayerIndices(indicesLength) ==
  [indices |-> [i \in 0 .. (indicesLength - 1) |-> 0],
   min |-> 0,
   len |-> 0,
   slots |-> NewSlices(0, indicesLength),
   allocated |-> {},
   dirty |-> FALSE,
   pending |-> << >>,
   startAddress |-> 0]

\* vertexArrays in self.layers and layer in self.layers[vertexArrays]
HasLayer(ls, layer, va) == va \in DOMAIN ls /\ layer \in DOMAIN ls[va]

\* self.layers[vertexArrays][layer] = value
SetLayer(ls, layer, va, value) ==
  [v \in DOMAIN ls \cup {va} |->
     IF v = va
       THEN [l \in (IF va \in DOMAIN ls THEN DOMAIN ls[va] ELSE {}) \cup {layer} |->
               IF l = layer THEN value ELSE ls[va][l]]
       ELSE ls[v]]

\* number of slots of a region that shapes live in
ShapeNoSlots == 16
\* the regions of the renderers of the shapes, one renderer for each class
ShapeRegions == {"Sprite", "Ellipse", "Lines", "Triangles"}
\* int(vertexArrays.noSlots * vertexArrays.slotMultiplier)
IndicesLengthOf(va) == IF va \in ShapeRegions THEN ShapeNoSlots ELSE IndicesLength

\* GL3Client.makeLayer
MakeLayer(ls, layer, va) ==
  SetLayer(ls, layer, va,
           [indicesLength |-> IndicesLengthOf(va), sizeOfIndices |-> SizeOfIndices,
            lists |-> << >>])

\* layerData[3][indx] = rec, indx counted from 0 as in the code
SetRecord(ls, layer, va, indx, rec) ==
  SetLayer(ls, layer, va, [ls[va][layer] EXCEPT !.lists[indx + 1] = rec])

\* getRenderSlots that forgets to record the slots in the allocated set
GetRenderSlotsNoMark(ls, n, layer, va) ==
  LET made == IF HasLayer(ls, layer, va) THEN ls ELSE MakeLayer(ls, layer, va)
      layerData == made[va][layer]
      rec == IF layerData.lists # << >> THEN layerData.lists[1]
             ELSE NewLayerIndices(layerData.indicesLength)
      c == CanAllocate(rec.slots, n)
      a == Allocate(c.obj, n)
      appended == SetLayer(made, layer, va, [layerData EXCEPT !.lists = << rec >>])
  IN  IF layerData.lists # << >> /\ ~c.ret
        THEN [ret |-> << >>, indx |-> 0, raised |-> FALSE, hung |-> TRUE,
              layers |-> SetRecord(appended, layer, va, 0, [rec EXCEPT !.slots = c.obj])]
        ELSE IF a.raised
          THEN [ret |-> << >>, indx |-> 0, raised |-> TRUE, hung |-> FALSE,
                layers |-> SetRecord(appended, layer, va, 0, [rec EXCEPT !.slots = a.obj])]
          ELSE [ret |-> a.ret, indx |-> 0, raised |-> FALSE, hung |-> FALSE,
                layers |-> SetRecord(appended, layer, va, 0,
                             [rec EXCEPT !.slots = a.obj, !.dirty = TRUE])]

\* GL3Client.getRenderSlots: the slots and list index returned, whether the
\* call raised, whether its while loop never ends, and self.layers afterwards
GetRenderSlots(ls, n, layer, va) ==
  LET made == IF HasLayer(ls, layer, va) THEN ls ELSE MakeLayer(ls, layer, va)
      layerData == made[va][layer]
  IN  IF layerData.lists # << >>
        THEN \* the loop tests record 0 again and again: indx is never advanced
             LET rec == layerData.lists[1]
                 c == CanAllocate(rec.slots, n)
                 a == Allocate(c.obj, n)
             IN  IF c.ret
                   THEN [ret |-> a.ret, indx |-> 0, raised |-> FALSE, hung |-> FALSE,
                         layers |-> SetRecord(made, layer, va, 0,
                                      [rec EXCEPT !.slots = a.obj,
                                                  !.dirty = TRUE,
                                                  !.allocated = @ \cup Range(a.ret)])]
                   ELSE [ret |-> << >>, indx |-> 0, raised |-> FALSE, hung |-> TRUE,
                         layers |-> SetRecord(made, layer, va, 0, [rec EXCEPT !.slots = c.obj])]
        ELSE LET rec == NewLayerIndices(layerData.indicesLength)
                 a == Allocate(rec.slots, n)
                 appended == SetLayer(made, layer, va, [layerData EXCEPT !.lists = << rec >>])
             IN  IF a.raised
                   THEN [ret |-> << >>, indx |-> 0, raised |-> TRUE, hung |-> FALSE,
                         layers |-> SetRecord(appended, layer, va, 0, [rec EXCEPT !.slots = a.obj])]
                   ELSE [ret |-> a.ret, indx |-> 0, raised |-> FALSE, hung |-> FALSE,
                         layers |-> SetRecord(appended, layer, va, 0,
                                      [rec EXCEPT !.slots = a.obj,
                                                  !.dirty = TRUE,
                                                  !.allocated = @ \cup Range(a.ret)])]

\* releaseRenderSlots that leaves the dirty flag alone
ReleaseRenderSlotsNoDirty(ls, slots, layer, indx, va) ==
  LET rec == ls[va][layer].lists[indx + 1]
  IN  SetRecord(ls, layer, va, indx,
                [rec EXCEPT !.pending = @ \o slots,
                            !.slots = Release(@, slots)])

\* releaseRenderSlots that compacts at once: the slots leave the allocated set
ReleaseRenderSlotsEager(ls, slots, layer, indx, va) ==
  LET rec == ls[va][layer].lists[indx + 1]
  IN  SetRecord(ls, layer, va, indx,
                [rec EXCEPT !.dirty = TRUE,
                            !.pending = @ \o slots,
                            !.allocated = @ \ Range(slots),
                            !.slots = Release(@, slots)])

\* GL3Client.releaseRenderSlots
ReleaseRenderSlots(ls, slots, layer, indx, va) ==
  LET rec == ls[va][layer].lists[indx + 1]
  IN  SetRecord(ls, layer, va, indx,
                [rec EXCEPT !.dirty = TRUE,
                            !.pending = @ \o slots,
                            !.slots = Release(@, slots)])

\* the loop of uploadSlotData: indices[slots[x]] = data[x], later x last
RECURSIVE WriteSlots(_, _, _, _)
WriteSlots(indices, data, slots, x) ==
  IF x > Len(slots) THEN indices
  ELSE WriteSlots([indices EXCEPT ![slots[x]] = data[x]], data, slots, x + 1)

\* clean computing the active range before the pending slots are removed
CleanStaleRange(rec, sizeOfIndices) ==
  [indices |-> [i \in DOMAIN rec.indices |->
                  IF i \in Range(rec.pending) THEN 0 ELSE rec.indices[i]],
   min |-> IF rec.allocated # {} THEN Min(rec.allocated) ELSE 0,
   len |-> IF rec.allocated # {} THEN Max(rec.allocated) - Min(rec.allocated) + 1 ELSE 0,
   slots |-> Join(rec.slots),
   allocated |-> rec.allocated \ Range(rec.pending),
   dirty |-> FALSE,
   pending |-> << >>,
   startAddress |-> IF rec.allocated # {} THEN sizeOfIndices * Min(rec.allocated)
                    ELSE rec.startAddress]

\* clean that does not join the record's allocator
CleanNoJoin(rec, sizeOfIndices) ==
  LET allocated == rec.allocated \ Range(rec.pending)
  IN  [indices |-> [i \in DOMAIN rec.indices |->
                      IF i \in Range(rec.pending) THEN 0 ELSE rec.indices[i]],
       min |-> IF allocated # {} THEN Min(allocated) ELSE 0,
       len |-> IF allocated # {} THEN Max(allocated) - Min(allocated) + 1 ELSE 0,
       slots |-> rec.slots,
       allocated |-> allocated,
       dirty |-> FALSE,
       pending |-> << >>,
       startAddress |-> IF allocated # {} THEN sizeOfIndices * Min(allocated)
                        ELSE rec.startAddress]

\* GL3Client.clean
Clean(rec, sizeOfIndices) ==
  LET zeroed == [i \in DOMAIN rec.indices |->
                   IF i \in Range(rec.pending) THEN 0 ELSE rec.indices[i]]
      allocated == rec.allocated \ Range(rec.pending)
  IN  [indices |-> zeroed,
       min |-> IF allocated # {} THEN Min(allocated) ELSE 0,
       len |-> IF allocated # {} THEN Max(allocated) - Min(allocated) + 1 ELSE 0,
       slots |-> Join(rec.slots),
       allocated |-> allocated,
       dirty |-> FALSE,
       pending |-> << >>,
       startAddress |-> IF allocated # {} THEN sizeOfIndices * Min(allocated)
                        ELSE rec.startAddress]

\* the loop body drawing without housekeeping
TaskRecordNoClean(rec, sizeOfIndices) ==
  [rec |-> rec,
   cleaned |-> FALSE,
   draw |-> IF rec.len = 0 THEN << >>
            ELSE << [count |-> rec.len, start |-> rec.startAddress] >>]

\* the loop body drawing from the base address of the index array
TaskRecordFromBase(rec, sizeOfIndices) ==
  LET r == IF rec.dirty THEN Clean(rec, sizeOfIndices) ELSE rec
  IN  [rec |-> r,
       cleaned |-> rec.dirty,
       draw |-> IF r.len = 0 THEN << >>
                ELSE << [count |-> r.len, start |-> 0] >>]

\* the body of the loop over layerData[3] in doTasks: housekeeping, then the
\* draw call glDrawElements(glType, len, indicesType, startAddress) if any
TaskRecord(rec, sizeOfIndices) ==
  LET r == IF rec.dirty THEN Clean(rec, sizeOfIndices) ELSE rec
  IN  [rec |-> r,
       cleaned |-> rec.dirty,
       draw |-> IF r.len = 0 THEN << >>
                ELSE << [count |-> r.len, start |-> r.startAddress] >>]

\* the (region, list index) pairs of the records doTasks(layer) visits
RecordKeys(ls, layer) ==
  UNION {{<< va, i - 1 >> : i \in DOMAIN ls[va][layer].lists} :
           va \in {v \in DOMAIN ls : layer \in DOMAIN ls[v]}}

\* GL3Client.doTasks: self.layers afterwards, the records clean ran on and
\* the draw calls issued, by region and list index
DoTasks(ls, layer) ==
  LET task(va, indx) ==
        TaskRecord(ls[va][layer].lists[indx + 1], ls[va][layer].sizeOfIndices)
  IN  [layers |-> [va \in DOMAIN ls |->
                     IF layer \in DOMAIN ls[va]
                       THEN [ls[va] EXCEPT ![layer].lists =
                               [i \in DOMAIN @ |-> task(va, i - 1).rec]]
                       ELSE ls[va]],
       cleaned |-> {x \in RecordKeys(ls, layer) : task(x[1], x[2]).cleaned},
       draws |-> {[va |-> x[1], indx |-> x[2],
                   count |-> task(x[1], x[2]).draw[1].count,
                   start |-> task(x[1], x[2]).draw[1].start] :
                  x \in {y \in RecordKeys(ls, layer) : task(y[1], y[2]).draw # << >>}}]

\* the position lists[indx] names in a Python list: a negative indx counts
\* from the end; the position is outside 0 .. len-1 when lists[indx] raises
ListPosition(lists, indx) == IF indx < 0 THEN Len(lists) + indx ELSE indx

\* GL3Client.uploadSlotData: the error raised, if any, and self.layers afterwards
UploadSlotData(ls, data, slots, layer, indx, va) ==
  IF ~HasLayer(ls, layer, va) \/ ~(indx < LayerDataLen)
    THEN [raised |-> "ValueError", layers |-> ls]
    ELSE IF slots = << >>
      THEN [raised |-> "none", layers |-> ls]
      ELSE IF ~(ListPosition(ls[va][layer].lists, indx) \in 0 .. (Len(ls[va][layer].lists) - 1))
        THEN [raised |-> "IndexError", layers |-> ls]
        ELSE LET pos == ListPosition(ls[va][layer].lists, indx)
                 \* data[x] raises IndexError at the first x beyond the data
                 written == IF Len(data) < Len(slots) THEN SubSeq(slots, 1, Len(data))
                            ELSE slots
             IN  [raised |-> IF Len(data) < Len(slots) THEN "IndexError" ELSE "none",
                  layers |-> SetRecord(ls, layer, va, pos,
                               [ls[va][layer].lists[pos + 1] EXCEPT
                                  !.indices = WriteSlots(@, data, written, 1)])]

(***************************************************************************)
(* GLCommon (glcommon.py): the sorted list of rendering layers and the     *)
(* frame loop GLCommon.doTasks, which has every client draw layer by layer.*)
(***************************************************************************)
\* the layers any client of the program may register
FrameLayers == {0, 1, 2}

\* list.sort() on a list of distinct numbers
SortList(s) ==
  CHOOSE u \in Perms(Range(s)) : \A i, j \in DOMAIN u : i < j => u[i] < u[j]

\* updateLayers that appends without sorting
UpdateLayersNoSort(gl, layer) ==
  IF layer \notin Range(gl) THEN Append(gl, layer) ELSE gl

\* GLCommonClass.updateLayers
UpdateLayers(gl, layer) ==
  IF layer \notin Range(gl) THEN SortList(Append(gl, layer)) ELSE gl

\* the loop 'for layer in self.layers' of GLCommonClass.doTasks from position
\* i on: the shader hands each layer to the client's doTasks; trace lists,
\* in the order of the calls, each layer visited and the draw calls issued
RECURSIVE FrameFrom(_, _, _, _)
FrameFrom(ls, gl, i, trace) ==
  IF i > Len(gl) THEN [layers |-> ls, frame |-> trace]
  ELSE LET d == DoTasks(ls, gl[i])
       IN  FrameFrom(d.layers, gl, i + 1, Append(trace, [layer |-> gl[i], draws |-> d.draws]))

(***************************************************************************)
(* Vertex-array regions (GL3Client.vertexArraysD, VertexArrays.positions). *)
(* vertexArraysD is modelled as the list of the client's regions in the    *)
(* iteration order of the dict; a region is its identity and its           *)
(* positions allocator.                                                    *)
(***************************************************************************)
\* the capacity getVertexArrays gives a new region
ArraysLength == 65535
\* number of calls made on the regions in one behaviour
MaxArrayOps == 4
\* the numbers of data slots shapes ask for
DataSizes == {1, 2, ArraysLength - 1, ArraysLength}
\* shapes of at most this many data slots are destroyed in the model
MaxReleased == 2

\* vertexArraySpec.makeArrays(length): VertexArrays.__init__
NewVertexArrays(id, length) == [id |-> id, positions |-> NewSlices(0, length)]

\* the free slots of a region; the free ranges of a region are disjoint
RECURSIVE FreeSlotsFrom(_, _)
FreeSlotsFrom(s, i) ==
  IF i > Len(s) THEN 0 ELSE (s[i].e - s[i].b) + FreeSlotsFrom(s, i + 1)
FreeSlots(region) == FreeSlotsFrom(region.positions.slices, 1)

\* the loop of getVertexArrays from position i on: canAllocDataSlots(n) on
\* each region in turn up to the first that returns True (ret, 0 if none)
RECURSIVE ScanArrays(_, _, _)
ScanArrays(vs, n, i) ==
  IF i > Len(vs) THEN [ret |-> 0, arrays |-> vs]
  ELSE LET c == CanAllocate(vs[i].positions, n)
           scanned == [vs EXCEPT ![i].positions = c.obj]
       IN  IF c.ret THEN [ret |-> i, arrays |-> scanned]
           ELSE ScanArrays(scanned, n, i + 1)

\* a list with x put at position pos
InsertAt(s, pos, x) ==
  [i \in 1 .. (Len(s) + 1) |-> IF i < pos THEN s[i] ELSE IF i = pos THEN x ELSE s[i - 1]]

\* GL3Client.getVertexArrays: the identity of the region returned, whether it
\* was created, and vertexArraysD afterwards; pos is where the dict puts a
\* new key in its iteration order
GetVertexArrays(vs, n, pos) ==
  LET s == ScanArrays(vs, n, 1)
  IN  IF s.ret # 0
        THEN [ret |-> s.arrays[s.ret].id, created |-> FALSE, arrays |-> s.arrays]
        ELSE [ret |-> Len(vs) + 1, created |-> TRUE,
              arrays |-> InsertAt(s.arrays, pos, NewVertexArrays(Len(vs) + 1, ArraysLength))]

\* the position in vertexArraysD of the region with identity id
RegionIdx(vs, id) == CHOOSE i \in DOMAIN vs : vs[i].id = id

(***************************************************************************)
(* VertexArrays (shaderdata.py): the CPU-side arrays of one buffer region, *)
(* the setters the metaclass makes for its attributes, and bind().  An     *)
(* array holds NoAttribs elements per slot; self.dirtyRange[name] is the   *)
(* pair of sets (mins, maxs).                                              *)
(***************************************************************************)
\* noSlots of the region of the buffer model
VaNoSlots == 3
\* noAttribs: the number of elements an array holds per slot
NoAttribs == 2
\* number of calls made on the region in one behaviour
MaxVaOps == 4

\* the arrays of the region's spec
ArrayNames == {"pos", "texCoords", "color", "filters"}
\* addArray(..., dynamic=...): texCoords is a static array
Dynamic(array) == array # "texCoords"
\* the bytes of one element: c_uint8 for color, c_float for the others
ElemBytes(array) == IF array = "color" THEN 1 ELSE 4
\* the arrays that have a key in arrayLocs of the bound shader
ShaderArrays == {"pos", "texCoords", "color"}
\* len(data) of an array
ArrayLen == VaNoSlots * NoAttribs

\* the attributes of the spec (addAttrib): array, attribSize, attribOffset
\* (None: the offset is an argument of the setter) and attribBatched
Attribs ==
  {[array |-> "pos", size |-> NoAttribs, offset |-> 0, batched |-> FALSE],
   [array |-> "pos", size |-> 1, offset |-> NoAttribs - 1, batched |-> FALSE],
   [array |-> "texCoords", size |-> NoAttribs, offset |-> 0, batched |-> TRUE],
   [array |-> "texCoords", size |-> 1, offset |-> 0, batched |-> FALSE],
   [array |-> "color", size |-> 1, offset |-> None, batched |-> FALSE],
   [array |-> "filters", size |-> NoAttribs, offset |-> 0, batched |-> TRUE]}

\* every slot of the region, the highest one included
AllSlots == 0 .. (VaNoSlots - 1)

\* the slots getDataSlots can hand out: positions is Slices(0, noSlots), whose
\* allocate never gives out the highest index
HandedSlots == 0 .. (VaNoSlots - 2)

\* the slot lists callers pass: slots handed out by getDataSlots, each at most
\* once, in any order
SlotLists == UNION {Perms(S) : S \in (SUBSET HandedSlots) \ {{}}}

\* VertexArrays.__init__: zeroed arrays, nothing dirty; gpu is the data store
\* of each array's buffer object, made by glBufferData(GL_ARRAY_BUFFER,
\* len(data), data, ...): its size in bytes and the elements it holds
NewArrays ==
  [arraysR |-> [a \in ArrayNames |-> [e \in 0 .. (ArrayLen - 1) |-> 0]],
   dirty |-> {},
   dirtyRange |-> [a \in ArrayNames |-> [mins |-> {}, maxs |-> {}]],
   gpu |-> [a \in ArrayNames |-> [size |-> ArrayLen,
                                  elems |-> [e \in 0 .. (ArrayLen - 1) |-> 0]]]]

\* the element indices the loop of a setter writes for one slot
SlotElems(pos, size, offset) ==
  (pos * NoAttribs + offset) .. (pos * NoAttribs + offset + size - 1)

\* the element indices a setter call writes
Written(slots, size, offset) ==
  UNION {SlotElems(slots[x], size, offset) : x \in DOMAIN slots}

\* the setters made by make{Val,,Batch,VariableVal}Setter[Dyn]: offset is the
\* attribute's offset or, for a variable-offset setter, the argument
Setter(v, at, slots, offset, val) ==
  LET lo == slots[1] * NoAttribs + offset
      hi == slots[Len(slots)] * NoAttribs
              + (IF at.size = 1 THEN offset ELSE at.size + offset)
      w == Written(slots, at.size, offset)
  IN  [v EXCEPT !.arraysR[at.array] = [e \in DOMAIN @ |-> IF e \in w THEN val ELSE @[e]],
                !.dirty = @ \cup {at.array},
                !.dirtyRange = IF Dynamic(at.array)
                                 THEN [@ EXCEPT ![at.array] =
                                         [mins |-> @.mins \cup {lo}, maxs |-> @.maxs \cup {hi}]]
                                 ELSE @]

\* glBufferData(GL_ARRAY_BUFFER, size, data, usage): a new data store of size
\* bytes holding the first size bytes of data; mult is the bytes per element
BufferData(data, size, mult) ==
  [size |-> size,
   elems |-> [e \in DOMAIN data |-> IF (e + 1) * mult <= size THEN data[e] ELSE 0]]

\* glBufferSubData(GL_ARRAY_BUFFER, offset, size, byref(data, offset)) on the
\* store g: the bytes offset .. offset+size-1 of data are copied
BufferSubData(g, data, offset, size, mult) ==
  [g EXCEPT !.elems = [e \in DOMAIN @ |->
                         IF offset <= e * mult /\ (e + 1) * mult <= offset + size
                           THEN data[e] ELSE @[e]]]

\* the body of the loop 'for array in bind' of bind() for one array: the
\* upload call issued if any, the error raised if any, the region afterwards.
\* glBufferSubData is refused with GL_INVALID_VALUE (GLError) when the size is
\* negative or the bytes do not lie inside the data store.
BindArray(v, array) ==
  LET keyError == IF array \in ShaderArrays THEN "none" ELSE "KeyError"
  IN  IF array \notin v.dirty
        THEN [v |-> v, uploads |-> << >>, raised |-> keyError]
      ELSE IF ~Dynamic(array)
        THEN [v |-> [v EXCEPT !.gpu[array] =
                       BufferData(v.arraysR[array], ArrayLen, ElemBytes(array))],
              raised |-> keyError,
              uploads |-> << [array |-> array, call |-> "glBufferData",
                              offset |-> 0, size |-> ArrayLen] >>]
      ELSE IF v.dirtyRange[array].mins = {} \/ v.dirtyRange[array].maxs = {}
        THEN [v |-> v, uploads |-> << >>, raised |-> "ValueError"]
      ELSE LET mn == Min(v.dirtyRange[array].mins)
               mx == Max(v.dirtyRange[array].maxs)
               mult == ElemBytes(array)
               sz == (mx - mn + 1) * mult
               up == << [array |-> array, call |-> "glBufferSubData",
                         offset |-> mn * mult, size |-> sz] >>
           IN  IF sz < 0 \/ mn * mult + sz > v.gpu[array].size
                 THEN [v |-> v, uploads |-> up, raised |-> "GLError"]
                 ELSE [v |-> [v EXCEPT !.dirtyRange[array] = [mins |-> {}, maxs |-> {}],
                                       !.gpu[array] = BufferSubData(@, v.arraysR[array],
                                                                    mn * mult, sz, mult)],
                       raised |-> keyError,
                       uploads |-> up]

\* the loop of bind() over the arrays of order from position i on
RECURSIVE BindFrom(_, _, _, _)
BindFrom(v, order, i, uploads) ==
  IF i > Len(order) THEN [v |-> v, uploads |-> uploads, raised |-> "none"]
  ELSE LET b == BindArray(v, order[i])
       IN  IF b.raised # "none"
             THEN [v |-> b.v, uploads |-> uploads \o b.uploads, raised |-> b.raised]
             ELSE BindFrom(b.v, order, i + 1, uploads \o b.uploads)

\* the arrays bind() loops over: those of bindArgs when the region is not the
\* bound one or force is set, the dirty ones otherwise
BindSet(v, bound, force) ==
  IF ~bound \/ force THEN ArrayNames \cap ShaderArrays ELSE v.dirty

\* VertexArrays.bind: order is the iteration order of the loop; self.dirty is
\* cleared when the loop ends without an error
Bind(v, order) ==
  LET b == BindFrom(v, order, 1, << >>)
  IN  [v |-> IF b.raised = "none" THEN [b.v EXCEPT !.dirty = {}] ELSE b.v,
       uploads |-> b.uploads,
       raised |-> b.raised]

(***************************************************************************)
(* TextureAtlas2d and SpriteShader (twodspriteinfrastructure.py).  A       *)
(* GL3Rect is the record x, y, width, height, area; an atlas is its size,  *)
(* its border and the list self.rects of free rectangles.                  *)
(***************************************************************************)
\* the size of the atlases explored in full
AtlasSize == 6
\* number of calls made on the atlases of that size in one behaviour
MaxAtlasOps == 5
\* the atlas size and the number of boxes of the 512x512 scenario
ScenarioSize == 512
ScenarioBoxes == 6
\* TextureAtlas2d.__init__(..., border=1)
Border == 1
\* the widths and heights asked of an atlas of a given size
BoxSizes(size) == IF size = ScenarioSize THEN {100} ELSE {1, 2}

\* GL3Rect(x, y, width, height, width * height)
Rect(x, y, width, height) ==
  [x |-> x, y |-> y, width |-> width, height |-> height, area |-> width * height]

\* TextureAtlas2d.__init__
NewAtlas(size) == [size |-> size, border |-> Border, rects |-> << Rect(0, 0, size, size) >>]

\* a first-fit search: the first rectangle that is large enough
FindRectFirstFit(rects, i, findWidth, findHeight, found, bestWastage) ==
  IF \E k \in DOMAIN rects : rects[k].width > findWidth /\ rects[k].height > findHeight
    THEN Min({k \in DOMAIN rects : rects[k].width > findWidth /\ rects[k].height > findHeight})
    ELSE 0

\* the loop 'for rect in self.rects' of getBox from position i on: the
\* position of foundRect, 0 for None
RECURSIVE FindRect(_, _, _, _, _, _)
FindRect(rects, i, findWidth, findHeight, found, bestWastage) ==
  IF i > Len(rects) THEN found
  ELSE IF rects[i].width > findWidth /\ rects[i].height > findHeight
            /\ rects[i].area - findWidth * findHeight < bestWastage
         THEN FindRect(rects, i + 1, findWidth, findHeight, i,
                       rects[i].area - findWidth * findHeight)
         ELSE FindRect(rects, i + 1, findWidth, findHeight, found, bestWastage)

\* list.remove(x): the list without its first item equal to x
RemoveFirst(s, x) ==
  LET k == Min({i \in DOMAIN s : s[i] = x})
  IN  [i \in 1 .. (Len(s) - 1) |-> IF i < k THEN s[i] ELSE s[i + 1]]

\* a split whose small box spans the whole found rectangle
SplitOverlap(foundRect, findWidth, findHeight) ==
  << Rect(foundRect.x, foundRect.y + findHeight, foundRect.width,
          foundRect.height - findHeight),
     Rect(foundRect.x + findWidth, foundRect.y, foundRect.width - findWidth,
          foundRect.height) >>

\* a split that always keeps the strip to the right at full height
SplitRightFirst(foundRect, findWidth, findHeight) ==
  << Rect(foundRect.x + findWidth, foundRect.y, foundRect.width - findWidth,
          foundRect.height),
     Rect(foundRect.x, foundRect.y + findHeight, findWidth,
          foundRect.height - findHeight) >>

\* a split that gives nothing back
SplitNone(foundRect, findWidth, findHeight) == << >>

\* lines 346-367 of getBox: the residual rectangles appended to self.rects
Split(foundRect, findWidth, findHeight) ==
  LET newX == foundRect.x + findWidth
      remainingX == foundRect.width - findWidth
      newY == foundRect.y + findHeight
      remainingY == foundRect.height - findHeight
      bigBox1 == Rect(newX, foundRect.y, remainingX, foundRect.height)
      bigBox2 == Rect(foundRect.x, newY, foundRect.width, remainingY)
      bigBox == IF bigBox1.area > bigBox2.area THEN bigBox1 ELSE bigBox2
      smallBox == IF bigBox1.area > bigBox2.area
                    THEN Rect(foundRect.x, newY, findWidth, remainingY)
                    ELSE Rect(newX, foundRect.y, remainingX, findHeight)
  IN  (IF bigBox.area > 0 THEN << bigBox >> ELSE << >>)
        \o (IF smallBox.area > 0 THEN << smallBox >> ELSE << >>)

\* TextureAtlas2d.getBox: ret is << >> for None or holds the image's
\* intCoords; chosen holds foundRect; atlas is the atlas afterwards
AtlasGetBox(a, width, height, wrapped) ==
  LET findWidth == width + (IF wrapped THEN 2 ELSE 0) + a.border
      findHeight == height + (IF wrapped THEN 2 ELSE 0) + a.border
      k == FindRect(a.rects, 1, findWidth, findHeight, 0, a.size * a.size + 1)
  IN  IF k = 0
        THEN [ret |-> << >>, chosen |-> << >>, atlas |-> a]
        ELSE [ret |-> << Rect(a.rects[k].x, a.rects[k].y, findWidth, findHeight) >>,
              chosen |-> << a.rects[k] >>,
              atlas |-> [a EXCEPT !.rects = RemoveFirst(@, a.rects[k])
                                              \o Split(a.rects[k], findWidth, findHeight)]]

\* the loop 'while not x and n != -1' of SpriteShader.getBox: the atlases
\* are tried from the last one down; atlas is 0 when none has room
RECURSIVE TryAtlases(_, _, _, _, _)
TryAtlases(atl, n, width, height, wrapped) ==
  IF n = 0 THEN [atlas |-> 0, got |-> [ret |-> << >>, chosen |-> << >>]]
  ELSE IF AtlasGetBox(atl[n], width, height, wrapped).ret # << >>
         THEN [atlas |-> n, got |-> AtlasGetBox(atl[n], width, height, wrapped)]
         ELSE TryAtlases(atl, n - 1, width, height, wrapped)

\* SpriteShader.getBox (with makeNewAtlas): the error raised, the value
\* returned (<< >> for None), the atlas used and the atlases afterwards
ShaderGetBox(atl, size, width, height, wrapped) ==
  IF width >= size \/ height >= size
    THEN [raised |-> "CannotAllocateError", ret |-> << >>, chosen |-> << >>,
          atlas |-> 0, atlases |-> atl]
    ELSE LET t == TryAtlases(atl, Len(atl), width, height, wrapped)
             made == Append(atl, NewAtlas(size))
             g == AtlasGetBox(NewAtlas(size), width, height, wrapped)
         IN  IF t.atlas # 0
               THEN [raised |-> "none", ret |-> t.got.ret, chosen |-> t.got.chosen,
                     atlas |-> t.atlas,
                     atlases |-> [atl EXCEPT ![t.atlas] = t.got.atlas]]
               ELSE [raised |-> "none", ret |-> g.ret, chosen |-> g.chosen,
                     atlas |-> Len(made),
                     atlases |-> [made EXCEPT ![Len(made)] = g.atlas]]

(***************************************************************************)
(* TwoDTextureCommon.findTextureSize (twodtexture.py) and                  *)
(* TextureAtlas2d.uploadToBox.  The driver is the set of sizes that        *)
(* testSize accepts and the set that testSize2 accepts.                    *)
(***************************************************************************)
minTextureSize == 512
maxTextureSize == 4096
\* the sizes a driver may accept
DriverSizes == {256, 512, 1024, 2048, 4096}
\* the bounds asked of findTextureSize
MinSizes == {256, minTextureSize}
MaxSizes == {minTextureSize, 1024, maxTextureSize}
\* the sides of the images uploaded and of the rectangles uploaded to
MaxImageSide == 3
RectSides == {2, 4}

\* 'while not test(size): size >>= 1': the size the loop stops at; a size of
\* 0 is never accepted and halves to itself, so the loop does not end and
\* the result is 0
RECURSIVE HalveUntil(_, _)
HalveUntil(size, accepted) ==
  IF size = 0 THEN 0
  ELSE IF size \in accepted THEN size
  ELSE HalveUntil(size \div 2, accepted)

\* findTextureSize(minsize, maxsize) on a driver whose testSize accepts the
\* sizes in acc1 and whose testSize2 accepts those in acc2
FindTextureSize(minsize, maxsize, acc1, acc2) ==
  LET size == HalveUntil(HalveUntil(maxsize, acc1), acc2)
  IN  IF size = 0 THEN [ret |-> 0, raised |-> "none", hung |-> TRUE]
      ELSE IF size <= minsize THEN [ret |-> 0, raised |-> "MemoryError", hung |-> FALSE]
      ELSE [ret |-> size, raised |-> "none", hung |-> FALSE]

\* Python's comparison a > b of two pairs
TupleGreater(a, b) == a[1] > b[1] \/ (a[1] = b[1] /\ a[2] > b[2])

\* RawImage.getSizeWrapped
GetSizeWrapped(size) == << size[1] + 2, size[2] + 2 >>

\* TextureAtlas2d.uploadToBox(image, rect, wrapped) for an image of the given
\* size: the error raised and the calls of texture.upload
UploadToBox(size, rect, wrapped) ==
  LET sz == IF wrapped THEN GetSizeWrapped(size) ELSE size
  IN  IF TupleGreater(sz, << rect.width, rect.height >>)
        THEN [raised |-> "CannotBlitIntoError", uploads |-> << >>]
        ELSE [raised |-> "none",
              uploads |-> << [pos |-> << rect.x, rect.y >>, size |-> sz] >>]

\* a deallocation that gives back the box without its border
DeallocateShrunk(a, intCoords) ==
  [a EXCEPT !.rects = Append(@, Rect(intCoords.x, intCoords.y,
                                     intCoords.width - a.border,
                                     intCoords.height - a.border))]

\* TextureAtlas2d.deallocateImage
DeallocateImage(a, intCoords) == [a EXCEPT !.rects = Append(@, intCoords)]

\* two rectangles share a pixel
Overlap(r, s) ==
  /\ r.x < s.x + s.width /\ s.x < r.x + r.width
  /\ r.y < s.y + s.height /\ s.y < r.y + r.height

\* a rectangle lies inside the size x size texture
Inside(r, size) ==
  /\ 0 <= r.x /\ 0 <= r.y /\ r.width >= 0 /\ r.height >= 0
  /\ r.x + r.width <= size /\ r.y + r.height <= size

\* the total area of a list of rectangles
RECURSIVE TotalArea(_, _)
TotalArea(rects, i) == IF i > Len(rects) THEN 0 ELSE rects[i].area + TotalArea(rects, i + 1)

(***************************************************************************)
(* The GL-state cache of GLCommon (glcommon.py): boundArrays and           *)
(* boundUniforms map a location to the data object last bound to it.  Data *)
(* objects are compared by identity; a dict without the key is modelled by *)
(* the value NoObject.                                                     *)
(***************************************************************************)
\* number of calls made on the cache in one behaviour
MaxCacheOps == 3
\* the locations the GL compiler hands out; -1 is an attribute or uniform
\* that it has optimised away
Locations == {-1, 0, 1}
DataObjects == {"m1", "m2"}
NoObject == "None"

\* GLCommonClass.__init__
NewGLCache ==
  [boundArrays |-> [l \in Locations \ {-1} |-> NoObject],
   boundUniforms |-> [l \in Locations \ {-1} |-> NoObject]]

\* GLCommonClass.bindUniform(bindFunc, args, force) with args[0] = loc and
\* args[-1] = data: the cache afterwards and the number of calls of bindFunc
BindUniform(c, loc, data, force) ==
  IF loc = -1 THEN [cache |-> c, calls |-> 0]
  ELSE IF c.boundUniforms[loc] # data \/ force
    THEN [cache |-> [c EXCEPT !.boundArrays[loc] = data], calls |-> 1]
    ELSE [cache |-> c, calls |-> 0]

\* GLCommonClass.bindArray(glArgsList, force) with glArgsList[0] = index and
\* glArgsList[-1] = array: the cache afterwards and the number of calls of
\* glVertexAttribPointer
GLBindArray(c, index, array, force) ==
  IF index = -1 THEN [cache |-> c, calls |-> 0]
  ELSE IF c.boundArrays[index] # array \/ force
    THEN [cache |-> [c EXCEPT !.boundArrays[index] = array], calls |-> 1]
    ELSE [cache |-> c, calls |-> 0]

(***************************************************************************)
(* Shapes (twodbases.py, twodspritesinterface.py, twodellipse.py,          *)
(* twodlines.py, twodtriangles.py).  A shape holds data slots of a region  *)
(* (_slots), render slots of an index-list record (_rslots, _rindex) on    *)
(* its layer (_layer) and the vertex indices it draws (_rdata).  The       *)
(* renderers of the classes are told apart by the region they own.  The    *)
(* field home is not in the code: it names the record (layer, list index)  *)
(* that handed out _rslots.                                                *)
(***************************************************************************)
\* number of shapes in one behaviour
MaxShapes == 2
\* number of calls made on shapes in one behaviour
MaxShapeOps == 4
\* SpriteBuffer.length
BufferLength == 1
\* the number of render slots setLayer and reset ask for
SetLayerSlots == 6

\* the shapes created: class, len(vertices) and closed
ShapeKinds ==
  {[class |-> "Sprite", verticesLen |-> 4, closed |-> FALSE],
   [class |-> "Ellipse", verticesLen |-> 4, closed |-> FALSE],
   [class |-> "Lines", verticesLen |-> 2, closed |-> FALSE],
   [class |-> "Lines", verticesLen |-> 3, closed |-> FALSE],
   [class |-> "Lines", verticesLen |-> 3, closed |-> TRUE],
   [class |-> "Triangles", verticesLen |-> 3, closed |-> FALSE],
   [class |-> "Triangles", verticesLen |-> 6, closed |-> FALSE]}

\* renderLen of __init__: the number of render slots the shape asks for
RenderLen(kind) ==
  IF kind.class \in {"Sprite", "Ellipse"} THEN 6
  ELSE IF kind.class = "Triangles" THEN kind.verticesLen
  ELSE IF kind.verticesLen <= 2 THEN 2
  ELSE IF kind.closed THEN 2 * kind.verticesLen
  ELSE 2 * kind.verticesLen - 2

\* _rdata of __init__ for the data slots s
RData(kind, s) ==
  IF kind.class \in {"Sprite", "Ellipse"}
    THEN << s[1], s[2], s[3], s[1], s[3], s[4] >>
  ELSE IF kind.class = "Triangles" \/ kind.verticesLen = 2 THEN s
  ELSE [i \in 1 .. (2 * kind.verticesLen) |->
          IF i % 2 = 1 THEN s[(i + 1) \div 2]
          ELSE s[(((i \div 2) % kind.verticesLen)) + 1]]

\* the number of data slots __init__ asks for
DataLen(kind) == IF kind.class \in {"Sprite", "Ellipse"} THEN 4 ELSE kind.verticesLen

NoShape == [state |-> "none", kind |-> << >>, slots |-> << >>, rslots |-> << >>,
            rindex |-> 0, layer |-> 0, rdata |-> << >>, home |-> << >>]

\* the error of self.layers[vertexArrays][layer][3][indx] in releaseRenderSlots
ReleaseError(ls, layer, indx, va) ==
  IF ~HasLayer(ls, layer, va) THEN "KeyError"
  ELSE IF indx + 1 > Len(ls[va][layer].lists) THEN "IndexError"
  ELSE "none"

\* the three calls that setLayer and reset end with: releaseRenderSlots on
\* relLayer if the shape has render slots, then getRenderSlots(6) and
\* uploadSlotData on layer (in reset only if the shape has render slots).
\* The calls made are listed in releases, acquired and uploads.
MoveSlots(ls, sh, relLayer, layer, always) ==
  LET va == sh.kind.class
      has == sh.rslots # << >>
      relErr == IF has THEN ReleaseError(ls, relLayer, sh.rindex, va) ELSE "none"
      rels == IF has
                THEN << [slots |-> sh.rslots, layer |-> relLayer, indx |-> sh.rindex,
                         home |-> sh.home, raised |-> relErr] >>
                ELSE << >>
      moved == [sh EXCEPT !.layer = layer]
      \* after getRenderSlots has returned g and uploadSlotData u
      Uploaded(g, u) ==
        [layers |-> u.layers,
         shape |-> [moved EXCEPT !.rslots = g.ret, !.rindex = g.indx,
                                 !.home = << layer, g.indx >>],
         releases |-> rels,
         acquired |-> << [n |-> SetLayerSlots, layer |-> layer, ret |-> g.ret,
                          indx |-> g.indx] >>,
         uploads |-> << [data |-> sh.rdata, slots |-> g.ret, layer |-> layer,
                         indx |-> g.indx, raised |-> u.raised] >>,
         raised |-> u.raised, hung |-> FALSE]
      Got(g) ==
        IF g.raised \/ g.hung
          THEN [layers |-> g.layers, shape |-> moved, releases |-> rels,
                acquired |-> << >>, uploads |-> << >>,
                raised |-> IF g.raised THEN "Exception" ELSE "none",
                hung |-> g.hung]
          ELSE Uploaded(g, UploadSlotData(g.layers, sh.rdata, g.ret, layer, g.indx, va))
      Released(ls1) ==
        IF ~(has \/ always)
          THEN [layers |-> ls1, shape |-> moved, releases |-> rels, acquired |-> << >>,
                uploads |-> << >>, raised |-> "none", hung |-> FALSE]
          ELSE Got(GetRenderSlots(ls1, SetLayerSlots, layer, va))
  IN  IF relErr # "none"
        THEN \* setLayer has not assigned self._layer yet, reset has
             [layers |-> ls, shape |-> [sh EXCEPT !.layer = relLayer],
              releases |-> rels, acquired |-> << >>,
              uploads |-> << >>, raised |-> relErr, hung |-> FALSE]
      ELSE IF has
        THEN Released(ReleaseRenderSlots(ls, sh.rslots, relLayer, sh.rindex, va))
        ELSE Released(ls)

\* TwoDThing.setLayer(layer)
ShapeSetLayer(ls, sh, layer) ==
  IF layer # sh.layer
    THEN MoveSlots(ls, sh, sh.layer, layer, TRUE)
    ELSE [layers |-> ls, shape |-> sh, releases |-> << >>, acquired |-> << >>,
          uploads |-> << >>, raised |-> "none", hung |-> FALSE]

\* Sprite.reset: the render-slot calls; self._layer is 0 before the release
Reset(ls, sh) ==
  LET ups(u) == << [data |-> sh.rdata, slots |-> sh.rslots, layer |-> sh.layer,
                    indx |-> sh.rindex, raised |-> u.raised] >>
      Moved(m, u) == [m EXCEPT !.uploads = ups(u) \o @]
      Uploaded(u) ==
        IF u.raised # "none" \/ sh.layer = 0
          THEN [layers |-> u.layers, shape |-> sh, releases |-> << >>, acquired |-> << >>,
                uploads |-> ups(u), raised |-> u.raised, hung |-> FALSE]
          ELSE Moved(MoveSlots(u.layers, sh, 0, 0, FALSE), u)
  IN  IF sh.rslots # << >>
        THEN Uploaded(UploadSlotData(ls, sh.rdata, sh.rslots, sh.layer, sh.rindex,
                                     sh.kind.class))
      ELSE IF sh.layer = 0
        THEN [layers |-> ls, shape |-> sh, releases |-> << >>, acquired |-> << >>,
              uploads |-> << >>, raised |-> "none", hung |-> FALSE]
        ELSE MoveSlots(ls, sh, 0, 0, FALSE)

\* the shape's release of its render slots in __del__
DelRelease(ls, sh) ==
  LET err == ReleaseError(ls, sh.layer, sh.rindex, sh.kind.class)
  IN  [layers |-> IF err = "none"
                    THEN ReleaseRenderSlots(ls, sh.rslots, sh.layer, sh.rindex, sh.kind.class)
                    ELSE ls,
       releases |-> << [slots |-> sh.rslots, layer |-> sh.layer, indx |-> sh.rindex,
                        home |-> sh.home, raised |-> err] >>,
       raised |-> err]

\* __init__ of a shape (of a Sprite: setImage) on data slots s: getRenderSlots
\* and uploadSlotData
NewShape(ls, kind, layer, s) ==
  LET va == kind.class
      rdata == RData(kind, s)
      Uploaded(g, u) ==
        [layers |-> u.layers,
         shape |-> [state |-> "live", kind |-> kind, slots |-> s, rslots |-> g.ret,
                    rindex |-> g.indx, layer |-> layer, rdata |-> rdata,
                    home |-> << layer, g.indx >>],
         acquired |-> << [n |-> RenderLen(kind), layer |-> layer, ret |-> g.ret,
                          indx |-> g.indx] >>,
         uploads |-> << [data |-> rdata, slots |-> g.ret, layer |-> layer,
                         indx |-> g.indx, raised |-> u.raised] >>,
         raised |-> u.raised, hung |-> FALSE]
      Got(g) ==
        IF g.raised \/ g.hung
          THEN [layers |-> g.layers, shape |-> NoShape, acquired |-> << >>,
                uploads |-> << >>,
                raised |-> IF g.raised THEN "Exception" ELSE "none", hung |-> g.hung]
          ELSE Uploaded(g, UploadSlotData(g.layers, rdata, g.ret, layer, g.indx, va))
  IN  Got(GetRenderSlots(ls, RenderLen(kind), layer, va))

(***************************************************************************)
(* State of the allocator model: one Slices(Start, End) object and what    *)
(* its caller sees.                                                        *)
(***************************************************************************)
VARIABLES
  slicesObj,    \* the Slices object
  outstanding,  \* bag of the indices handed out by allocate and not released
  last,         \* the last call: its name, arguments and result
  nops,         \* number of calls made so far
  rt            \* progress of the round trip allocate, release, join, canAllocate

allocVars == << slicesObj, outstanding, last, nops, rt >>

(***************************************************************************)
(* State of the client model: one GL3Client and the shapes that hold its   *)
(* render slots.                                                           *)
(***************************************************************************)
VARIABLES
  layers,       \* GL3Client.layers
  holders,      \* what the shapes hold: slots, with their region, layer and list index
  clast,        \* the last call on the client and its result
  cops,         \* number of calls made on the client so far
  hung          \* a call on the client never returned

clientVars == << layers, holders, clast, cops, hung >>

(***************************************************************************)
(* State of GLCommon and of the client's vertex-array regions.             *)
(***************************************************************************)
VARIABLES
  glLayers,     \* GLCommon.layers
  frame,        \* the layers visited and the draw calls issued by the last frame
  vertexArraysD, \* GL3Client.vertexArraysD
  dataHolders,  \* the data slots shapes hold: region, first slot and number
  alast,        \* the last call on the regions and its result
  aops          \* number of calls made on the regions so far

commonVars == << glLayers, frame >>
arraysVars == << vertexArraysD, dataHolders, alast, aops >>

(***************************************************************************)
(* State of the buffer model: one VertexArrays region.                     *)
(***************************************************************************)
VARIABLES
  vertexArrays, \* the region: arraysR, dirty, dirtyRange
  vaBound,      \* GLCommon.boundVertexArrays is the region
  vlast,        \* the last call on the region and its result
  vops          \* number of calls made on the region so far

bufferVars == << vertexArrays, vaBound, vlast, vops >>

(***************************************************************************)
(* State of the atlas model: the atlases of one SpriteShader and the       *)
(* images placed in them.                                                  *)
(***************************************************************************)
VARIABLES
  atlases,      \* SpriteShader.atlases
  atlasSize,    \* SpriteShader.atlasSize, 0 before the shader exists
  images,       \* the live images: the atlas each is on and its intCoords
  tlast,        \* the last call on the atlases and its result
  tops,         \* number of calls made on the atlases so far
  scen          \* the calls so far are scen getBox(100, 100) on a fresh 512 atlas

atlasVars == << atlases, atlasSize, images, tlast, tops, scen >>

VARIABLES
  xlast         \* the last call of findTextureSize or uploadToBox and its result

textureVars == << xlast >>

VARIABLES
  glCache,      \* GLCommon.boundArrays and GLCommon.boundUniforms
  glast         \* the last call on the cache and its result

cacheVars == << glCache, glast >>

(***************************************************************************)
(* State of the shapes model: the shapes, the data slots of their regions  *)
(* and a SpriteBuffer; the index lists are those of the client model.      *)
(***************************************************************************)
VARIABLES
  shapes,       \* the shapes, by number
  positions,    \* VertexArrays.positions of the region of each renderer
  spriteBuffer, \* SpriteBuffer.spriteBuffer
  slast,        \* the last call on a shape and the client calls it made
  sops          \* number of calls made on shapes

shapeVars == << shapes, positions, spriteBuffer, slast, sops >>

dataVars == << bufferVars, atlasVars, textureVars, cacheVars, shapeVars >>

\* op, id, layer: the call; before: the shape before it; releases, acquired,
\* uploads: the calls of releaseRenderSlots, getRenderSlots and uploadSlotData
\* it made; raised: the error it raised
NoShapeCall == [op |-> "none", id |-> 0, layer |-> 0, before |-> NoShape,
                releases |-> << >>, acquired |-> << >>, uploads |-> << >>,
                raised |-> "none"]

\* op, loc, data, force: the call; calls: the driver calls it issued; before:
\* the cache before it; seq: the number of calls made on the cache so far
NoCacheCall == [op |-> "none", loc |-> -1, data |-> NoObject, force |-> FALSE,
                calls |-> 0, before |-> NewGLCache, seq |-> 0]

\* op: the call; minsize, maxsize, acc1, acc2: the request to findTextureSize
\* and the driver; size, rect, wrapped: the request to uploadToBox; ret,
\* raised, hung, uploads: the outcome
NoTextureCall == [op |-> "none", minsize |-> 0, maxsize |-> 0, acc1 |-> {}, acc2 |-> {},
                  size |-> << 0, 0 >>, rect |-> Rect(0, 0, 0, 0), wrapped |-> FALSE,
                  ret |-> 0, raised |-> "none", hung |-> FALSE, uploads |-> << >>]

\* op: the call; atlas: the atlas called or used; width, height, wrapped: the
\* request; ret: << >> for None or the intCoords of the image; chosen: the
\* free rectangle taken; raised: the error raised; made: atlases created;
\* before: self.rects of that atlas before the call; undo: for a deallocation
\* that directly follows the getBox that placed the image, self.rects before
\* that getBox
NoAtlasCall == [op |-> "none", atlas |-> 0, width |-> 0, height |-> 0, wrapped |-> FALSE,
                ret |-> << >>, chosen |-> << >>, raised |-> "none", made |-> 0,
                before |-> << >>, undo |-> << >>]

vars == << allocVars, clientVars, commonVars, arraysVars, dataVars >>

\* op: the call; at, slots, offset: the setter's attribute and arguments;
\* uploads: the upload calls bind issued; raised: the error bind raised;
\* ordered: every slot list passed to a setter so far was a list as
\* getDataSlots returns it, b, b+1, ..., b+n-1
NoBufferCall == [op |-> "none", at |-> << >>, slots |-> << >>, offset |-> 0,
                 uploads |-> << >>, raised |-> "none", before |-> {}, ordered |-> TRUE]

\* op, n: the call; ret: the region returned or used; created: getVertexArrays
\* made it; raised: getDataSlots raised; first: the first slot handed out
NoArraysCall == [op |-> "none", n |-> 0, ret |-> 0, created |-> FALSE,
                 raised |-> FALSE, first |-> 0]

\* op, n, numbers: the call; ret: what canAllocate returned; out, raised: what
\* allocate returned; follows: allocate(n) came right after canAllocate(n) = True
NoCall == [op |-> "none", n |-> 0, numbers |-> << >>, ret |-> FALSE,
           out |-> << >>, raised |-> FALSE, follows |-> FALSE]

NoClientCall == [op |-> "none", n |-> 0, layer |-> 0, va |-> "va", indx |-> 0,
                 slots |-> << >>, data |-> << >>, raised |-> "none",
                 cleaned |-> {}, draws |-> {}]

Init ==
  /\ shapes = [i \in 1 .. MaxShapes |-> NoShape]
  /\ positions = [va \in ShapeRegions |-> NewSlices(0, ShapeNoSlots)]
  /\ spriteBuffer = << >>
  /\ slast = NoShapeCall
  /\ sops = 0
  /\ glCache = NewGLCache
  /\ glast = NoCacheCall
  /\ xlast = NoTextureCall
  /\ atlases = << >>
  /\ atlasSize = 0
  /\ images = {}
  /\ tlast = NoAtlasCall
  /\ tops = 0
  /\ scen = 0
  /\ vertexArrays = NewArrays
  /\ vaBound = FALSE
  /\ vlast = NoBufferCall
  /\ vops = 0
  /\ glLayers = << >>
  /\ frame = << >>
  /\ vertexArraysD = << >>
  /\ dataHolders = {}
  /\ alast = NoArraysCall
  /\ aops = 0
  /\ layers = << >>
  /\ holders = {}
  /\ clast = NoClientCall
  /\ cops = 0
  /\ hung = FALSE
  /\ slicesObj = NewSlices(Start, End)
  /\ outstanding = EmptyBag
  /\ last = NoCall
  /\ nops = 0
  /\ rt = 0

\* a caller calls canAllocate(n)
CanAllocateCall(n) ==
  /\ nops < MaxOps
  /\ nops' = nops + 1
  /\ LET c == CanAllocate(slicesObj, n)
     IN  /\ slicesObj' = c.obj
         /\ last' = [NoCall EXCEPT !.op = "canAllocate", !.n = n, !.ret = c.ret]
  /\ rt' = IF rt = 3 /\ n = DomainSize THEN 4 ELSE -1
  /\ UNCHANGED << outstanding, clientVars, commonVars, arraysVars, dataVars >>

\* a caller calls allocate(n)
AllocateCall(n) ==
  /\ nops < MaxOps
  /\ nops' = nops + 1
  /\ LET a == Allocate(slicesObj, n)
     IN  /\ slicesObj' = a.obj
         /\ outstanding' = outstanding (+) SetToBag(Range(a.ret))
         /\ last' = [NoCall EXCEPT !.op = "allocate", !.n = n, !.out = a.ret,
                                   !.raised = a.raised,
                                   !.follows = (last.op = "canAllocate" /\ last.ret /\ last.n = n)]
         /\ rt' = IF rt = 0 /\ ~a.raised THEN 1 ELSE -1
  /\ UNCHANGED << clientVars, commonVars, arraysVars, dataVars >>

\* a caller calls release(numbers) with indices it holds
ReleaseCall(numbers) ==
  /\ nops < MaxOps
  /\ nops' = nops + 1
  /\ slicesObj' = Release(slicesObj, numbers)
  /\ outstanding' = outstanding (-) SetToBag(Range(numbers))
  /\ last' = [NoCall EXCEPT !.op = "release", !.numbers = numbers]
  /\ rt' = IF rt = 1 /\ numbers = last.out THEN 2 ELSE -1
  /\ UNCHANGED << clientVars, commonVars, arraysVars, dataVars >>

\* a caller calls join()
JoinCall ==
  /\ nops < MaxOps
  /\ nops' = nops + 1
  /\ slicesObj' = Join(slicesObj)
  /\ last' = [NoCall EXCEPT !.op = "join"]
  /\ rt' = IF rt = 2 THEN 3 ELSE -1
  /\ UNCHANGED << outstanding, clientVars, commonVars, arraysVars, dataVars >>

\* the lists a caller can release: indices it holds, once each, in any order
Releasable ==
  UNION {Perms(T) : T \in (SUBSET BagToSet(outstanding)) \ {{}}}

Next ==
  \/ \E n \in 1 .. DomainSize : CanAllocateCall(n)
  \/ \E n \in 1 .. DomainSize : AllocateCall(n)
  \/ \E numbers \in Releasable : ReleaseCall(numbers)
  \/ JoinCall

Spec == Init /\ [][Next]_vars

\* callers that use allocate and release only
NextAR ==
  \/ \E n \in 1 .. DomainSize : AllocateCall(n)
  \/ \E numbers \in Releasable : ReleaseCall(numbers)

SpecAR == Init /\ [][NextAR]_vars

(***************************************************************************)
(* Claims about Slices.                                                    *)
(***************************************************************************)
\* length of a range
RLen(r) == r.e - r.b
\* some range of the list is strictly longer than n
SomeLonger(s, n) == \E i \in DOMAIN s : RLen(s[i]) > n

\* C1: with callers that only call allocate and release (releasing only what
\* they hold), the indices outstanding all lie in [start, end) and none is
\* outstanding twice.
C1_OutstandingUniqueInDomain ==
  /\ BagToSet(outstanding) \subseteq Domain
  /\ \A i \in BagToSet(outstanding) : CopiesIn(i, outstanding) = 1

\* allocate has handed out indices after a release, while others are held
C1_Witness ==
  /\ last.op = "allocate" /\ ~last.raised
  /\ Len(slicesObj.slices) >= 2
  /\ \E i \in BagToSet(outstanding) : i \notin Range(last.out)

\* C2: allocate(n) right after canAllocate(n) = True does not raise, returns
\* b, b+1, ..., b+n-1 for b the begin of the range canAllocate found, and
\* moves that range's begin to b+n, leaving the other ranges alone.
C2_AllocateAfterCanAllocate ==
  [][(last.op = "canAllocate" /\ last.ret /\ last'.op = "allocate" /\ last'.n = last.n)
       => LET k == FoundIdx(slicesObj.slices)
              b == slicesObj.slices[k].b
          IN  /\ k # 0
              /\ ~last'.raised
              /\ Len(last'.out) = last.n
              /\ \A i \in 1 .. last.n : last'.out[i] = b + i - 1
              /\ Ranges(slicesObj'.slices) =
                   [Ranges(slicesObj.slices) EXCEPT ![k] = << b + last.n, slicesObj.slices[k].e >>]]_vars

\* allocate(n), n >= 2, has run right after canAllocate(n) = True
C2_Witness ==
  last.op = "allocate" /\ last.follows /\ ~last.raised /\ Len(last.out) >= 2

C4_ContiguousReleaseRefits ==
  [][(last.op = "release" /\ Contiguous(last.numbers)
        /\ last'.op = "canAllocate" /\ last'.n = Len(last.numbers))
       => last'.ret]_vars

\* C5: on a fresh allocator, after allocate(n), release of the n indices it
\* returned and join(), canAllocate(domain size) returns True.
C5_RoundTripReclaims == rt = 4 => last.ret

\* C6, as claimed: allocate(n) raises whenever it is called without a valid
\* preceding canAllocate(n), that is when no canAllocate(n) result is cached
\* since the last allocate, and then leaves the free ranges unchanged.
C6_AllocateRaisesUncached ==
  [][(last'.op = "allocate" /\ slicesObj.allocating # last'.n)
       => /\ last'.raised
          /\ Ranges(slicesObj'.slices) = Ranges(slicesObj.slices)]_vars

\* C6, amended: allocate(n) raises exactly when no canAllocate(n) result is
\* cached and no free range, before or after one join, is strictly longer than
\* n; it then hands out nothing and leaves the set of free integers unchanged,
\* the free ranges being left joined.
C6_AllocateRaisesAmended ==
  [][(last'.op = "allocate")
       => LET s == slicesObj.slices
              j == Join(slicesObj).slices
              n == last'.n
          IN  /\ last'.raised <=>
                   (slicesObj.allocating # n /\ ~SomeLonger(s, n) /\ ~SomeLonger(j, n))
              /\ last'.raised => /\ last'.out = << >>
                                 /\ outstanding' = outstanding
                                 /\ FreeSet(slicesObj'.slices) = FreeSet(s)
                                 /\ Ranges(slicesObj'.slices) = Ranges(j)]_vars

\* allocate has raised on an allocator that holds several free ranges
C6_Witness ==
  last.op = "allocate" /\ last.raised /\ Len(slicesObj.slices) >= 2

\* C7: release(S) appends the one range [min(S), max(S)+1) when S is one
\* contiguous block and one range [i, i+1) for every i of S otherwise; the
\* ranges that were there stay as they were, unmerged.
C7_ReleaseAppends ==
  [][(last'.op = "release")
       => LET s == Ranges(slicesObj.slices)
              t == Ranges(slicesObj'.slices)
              S == Range(last'.numbers)
          IN  /\ SubSeq(t, 1, Len(s)) = s
              /\ (Max(S) - Min(S) = Cardinality(S) - 1)
                   => t = Append(s, << Min(S), Max(S) + 1 >>)
              /\ (Max(S) - Min(S) # Cardinality(S) - 1)
                   => /\ Len(t) = Len(s) + Cardinality(S)
                      /\ {t[i] : i \in (Len(s) + 1) .. Len(t)} = {<< i, i + 1 >> : i \in S}]_vars

\* a set that is not one block has been released next to existing ranges
C7_Witness ==
  /\ last.op = "release"
  /\ Max(Range(last.numbers)) - Min(Range(last.numbers)) # Len(last.numbers) - 1
  /\ Len(slicesObj.slices) >= 3

\* C8: join() keeps the set of free integers, leaves the ranges sorted by
\* begin with no range ending where another begins, and a second join()
\* changes nothing.
C8_JoinNormalises ==
  [][(last'.op = "join")
       => LET t == slicesObj'.slices
          IN  /\ FreeSet(t) = FreeSet(slicesObj.slices)
              /\ \A i, k \in DOMAIN t : i < k => t[i].b <= t[k].b
              /\ \A i, k \in DOMAIN t : i # k => t[i].e # t[k].b
              /\ Join(slicesObj') = slicesObj']_vars

\* C9: every free range [b, e) has b <= e and lies in [start, end), and no
\* two free ranges overlap.
C9_RangesDisjoint ==
  LET s == slicesObj.slices
  IN  /\ \A i \in DOMAIN s : s[i].b <= s[i].e /\ Start <= s[i].b /\ s[i].e <= End
      /\ \A i, k \in DOMAIN s : i # k =>
            (s[i].b .. (s[i].e - 1)) \cap (s[k].b .. (s[k].e - 1)) = {}

(***************************************************************************)
(* Calls on the client.                                                    *)
(***************************************************************************)
\* a shape asks for n render slots on a layer
GetRenderSlotsCall(n, layer, va) ==
  /\ ~hung /\ cops < MaxClientOps
  /\ cops' = cops + 1
  /\ LET g == GetRenderSlots(layers, n, layer, va)
     IN  /\ layers' = g.layers
         /\ hung' = g.hung
         /\ holders' = IF g.raised \/ g.hung THEN holders
                       ELSE holders \cup {[va |-> va, layer |-> layer, indx |-> g.indx,
                                           slots |-> g.ret]}
         /\ clast' = [NoClientCall EXCEPT !.op = "getRenderSlots", !.n = n, !.layer = layer,
                                          !.va = va, !.indx = g.indx, !.slots = g.ret,
                                          !.raised = IF g.raised THEN "Exception" ELSE "none"]
  /\ glLayers' = IF HasLayer(layers, layer, va) THEN glLayers
                 ELSE UpdateLayers(glLayers, layer)
  /\ UNCHANGED << frame, allocVars, arraysVars, dataVars >>

\* a shape gives its render slots back
ReleaseRenderSlotsCall(h) ==
  /\ ~hung /\ cops < MaxClientOps
  /\ cops' = cops + 1
  /\ layers' = ReleaseRenderSlots(layers, h.slots, h.layer, h.indx, h.va)
  /\ holders' = holders \ {h}
  /\ clast' = [NoClientCall EXCEPT !.op = "releaseRenderSlots", !.layer = h.layer,
                                   !.va = h.va, !.indx = h.indx, !.slots = h.slots]
  /\ UNCHANGED << hung, allocVars, commonVars, arraysVars, dataVars >>

\* a shape uploads the vertex indices of its geometry into its render slots
UploadSlotDataCall(h, data) ==
  /\ ~hung /\ cops < MaxClientOps
  /\ cops' = cops + 1
  /\ LET u == UploadSlotData(layers, data, h.slots, h.layer, h.indx, h.va)
     IN  /\ layers' = u.layers
         /\ clast' = [NoClientCall EXCEPT !.op = "uploadSlotData", !.layer = h.layer,
                                          !.va = h.va, !.indx = h.indx, !.slots = h.slots,
                                          !.data = data, !.raised = u.raised]
  /\ UNCHANGED << holders, hung, allocVars, commonVars, arraysVars, dataVars >>

\* the frame loop draws a layer
DoTasksCall(layer) ==
  /\ ~hung /\ cops < MaxClientOps
  /\ cops' = cops + 1
  /\ LET d == DoTasks(layers, layer)
     IN  /\ layers' = d.layers
         /\ clast' = [NoClientCall EXCEPT !.op = "doTasks", !.layer = layer,
                                          !.cleaned = d.cleaned, !.draws = d.draws]
  /\ UNCHANGED << holders, hung, allocVars, commonVars, arraysVars, dataVars >>

NextClient ==
  \/ \E n \in 1 .. IndicesLength, layer \in Layers, va \in Regions :
       GetRenderSlotsCall(n, layer, va)
  \/ \E h \in holders : ReleaseRenderSlotsCall(h)
  \/ \E h \in holders : \E first \in DataValues :
       UploadSlotDataCall(h, [i \in 1 .. Len(h.slots) |-> first + i - 1])
  \/ \E layer \in Layers : DoTasksCall(layer)

SpecClient == Init /\ [][NextClient]_vars

\* any caller calls uploadSlotData(data, slots, layer, indx, vertexArrays)
UploadSlotDataAt(data, slots, layer, indx, va) ==
  /\ ~hung /\ cops < MaxUploadOps
  /\ cops' = cops + 1
  /\ LET u == UploadSlotData(layers, data, slots, layer, indx, va)
     IN  /\ layers' = u.layers
         /\ clast' = [NoClientCall EXCEPT !.op = "uploadSlotData", !.layer = layer,
                                          !.va = va, !.indx = indx, !.slots = slots,
                                          !.data = data, !.raised = u.raised]
  /\ UNCHANGED << holders, hung, allocVars, commonVars, arraysVars, dataVars >>

\* shapes get render slots and callers upload with arguments of their choice
NextUpload ==
  \/ \E n \in 1 .. IndicesLength, layer \in Layers, va \in Regions :
       GetRenderSlotsCall(n, layer, va)
  \/ \E slots \in UploadSlots, first \in DataValues, layer \in Layers,
        indx \in UploadIndices, va \in Regions \cup {OtherRegion} :
       UploadSlotDataAt([i \in 1 .. Len(slots) |-> first + i - 1], slots, layer, indx, va)

SpecUpload == Init /\ [][NextUpload]_vars

\* another client of the program registers a layer (makeLayer calls updateLayers)
UpdateLayersCall(layer) ==
  /\ ~hung /\ cops < MaxClientOps
  /\ cops' = cops + 1
  /\ glLayers' = UpdateLayers(glLayers, layer)
  /\ clast' = [NoClientCall EXCEPT !.op = "updateLayers", !.layer = layer]
  /\ UNCHANGED << layers, holders, hung, frame, allocVars, arraysVars, dataVars >>

\* one frame: GLCommon.doTasks
FrameCall ==
  /\ ~hung /\ cops < MaxClientOps
  /\ cops' = cops + 1
  /\ LET f == FrameFrom(layers, glLayers, 1, << >>)
     IN  /\ layers' = f.layers
         /\ frame' = f.frame
  /\ clast' = [NoClientCall EXCEPT !.op = "frame"]
  /\ UNCHANGED << holders, hung, glLayers, allocVars, arraysVars, dataVars >>

NextFrame ==
  \/ \E n \in 1 .. IndicesLength, layer \in Layers, va \in Regions :
       GetRenderSlotsCall(n, layer, va)
  \/ \E h \in holders : ReleaseRenderSlotsCall(h)
  \/ \E layer \in FrameLayers : UpdateLayersCall(layer)
  \/ FrameCall

SpecFrame == Init /\ [][NextFrame]_vars

\* a shape asks the client for a region with room for n data slots
GetVertexArraysCall(n, pos) ==
  /\ aops < MaxArrayOps /\ alast.op # "getVertexArrays"
  /\ aops' = aops + 1
  /\ LET g == GetVertexArrays(vertexArraysD, n, pos)
     IN  /\ vertexArraysD' = g.arrays
         /\ alast' = [NoArraysCall EXCEPT !.op = "getVertexArrays", !.n = n,
                                          !.ret = g.ret, !.created = g.created]
  /\ UNCHANGED << dataHolders, allocVars, clientVars, commonVars, dataVars >>

\* the shape's next statement: getDataSlots(n) on the region it was given
GetDataSlotsCall ==
  /\ alast.op = "getVertexArrays"
  /\ LET i == RegionIdx(vertexArraysD, alast.ret)
         a == Allocate(vertexArraysD[i].positions, alast.n)
     IN  /\ vertexArraysD' = [vertexArraysD EXCEPT ![i].positions = a.obj]
         /\ dataHolders' = IF a.raised THEN dataHolders
                           ELSE dataHolders \cup {[id |-> alast.ret, first |-> a.ret[1],
                                                   count |-> alast.n]}
         /\ alast' = [NoArraysCall EXCEPT !.op = "getDataSlots", !.n = alast.n,
                                          !.ret = alast.ret, !.raised = a.raised,
                                          !.first = IF a.raised THEN 0 ELSE a.ret[1]]
  /\ UNCHANGED << aops, allocVars, clientVars, commonVars, dataVars >>

\* a shape is destroyed: releaseDataSlots(slots) on its region
ReleaseDataSlotsCall(h) ==
  /\ aops < MaxArrayOps /\ alast.op # "getVertexArrays"
  /\ h.count <= MaxReleased
  /\ aops' = aops + 1
  /\ LET i == RegionIdx(vertexArraysD, h.id)
     IN  vertexArraysD' = [vertexArraysD EXCEPT
                             ![i].positions = Release(@, XRange(h.first, h.count))]
  /\ dataHolders' = dataHolders \ {h}
  /\ alast' = [NoArraysCall EXCEPT !.op = "releaseDataSlots", !.n = h.count,
                                   !.ret = h.id, !.first = h.first]
  /\ UNCHANGED << allocVars, clientVars, commonVars, dataVars >>

NextArrays ==
  \/ \E n \in DataSizes : \E pos \in 1 .. (Len(vertexArraysD) + 1) :
       GetVertexArraysCall(n, pos)
  \/ GetDataSlotsCall
  \/ \E h \in dataHolders : ReleaseDataSlotsCall(h)

SpecArrays == Init /\ [][NextArrays]_vars

\* a shape calls a setter of the region on a list of slots
SetterCall(at, slots, offset) ==
  /\ vops < MaxVaOps
  /\ vops' = vops + 1
  /\ vertexArrays' = Setter(vertexArrays, at, slots, offset, 1)
  /\ vlast' = [NoBufferCall EXCEPT !.op = "set", !.at = at, !.slots = slots,
                                   !.offset = offset,
                                   !.ordered = vlast.ordered
                                                 /\ slots = XRange(slots[1], Len(slots))]
  /\ UNCHANGED << vaBound, allocVars, clientVars, commonVars, arraysVars, atlasVars, textureVars, cacheVars, shapeVars >>

\* a client binds the region before it draws; before is the dirty set found
BindCall(force, order) ==
  /\ vops < MaxVaOps
  /\ vops' = vops + 1
  /\ LET b == Bind(vertexArrays, order)
     IN  /\ vertexArrays' = b.v
         /\ vlast' = [NoBufferCall EXCEPT !.op = "bind", !.uploads = b.uploads,
                                          !.raised = b.raised, !.before = vertexArrays.dirty,
                                          !.ordered = vlast.ordered]
  /\ vaBound' = TRUE
  /\ UNCHANGED << allocVars, clientVars, commonVars, arraysVars, atlasVars, textureVars, cacheVars, shapeVars >>

\* a client binds another region
OtherBindCall ==
  /\ vops < MaxVaOps /\ vaBound
  /\ vops' = vops + 1
  /\ vaBound' = FALSE
  /\ vlast' = [NoBufferCall EXCEPT !.op = "otherBind", !.ordered = vlast.ordered]
  /\ UNCHANGED << vertexArrays, allocVars, clientVars, commonVars, arraysVars, atlasVars, textureVars, cacheVars, shapeVars >>

NextBuffers ==
  \/ \E at \in Attribs, slots \in SlotLists :
       \E offset \in (IF at.offset = None THEN 0 .. (NoAttribs - 1) ELSE {at.offset}) :
         SetterCall(at, slots, offset)
  \/ \E force \in BOOLEAN : \E order \in Perms(BindSet(vertexArrays, vaBound, force)) :
       BindCall(force, order)
  \/ OtherBindCall

SpecBuffers == Init /\ [][NextBuffers]_vars

\* the calls an atlas model may still make: MaxAtlasOps on the small atlases,
\* the atlas and the boxes of the scenario on the 512 atlas
AtlasOpsLeft ==
  tops < (IF atlasSize = ScenarioSize THEN ScenarioBoxes + 1 ELSE MaxAtlasOps)

\* TextureAtlas2d(size): an atlas is created
NewAtlasCall(size) ==
  /\ atlases = << >> /\ atlasSize = 0
  /\ tops' = tops + 1
  /\ atlasSize' = size
  /\ atlases' = << NewAtlas(size) >>
  /\ tlast' = [NoAtlasCall EXCEPT !.op = "newAtlas", !.atlas = 1]
  /\ UNCHANGED << images, scen, allocVars, clientVars, commonVars, arraysVars, bufferVars, textureVars, cacheVars, shapeVars >>

\* atlas.getBox(width, height, wrapped=wrapped) on atlas i
AtlasGetBoxCall(i, width, height, wrapped) ==
  /\ AtlasOpsLeft
  /\ tops' = tops + 1
  /\ LET g == AtlasGetBox(atlases[i], width, height, wrapped)
     IN  /\ atlases' = [atlases EXCEPT ![i] = g.atlas]
         /\ images' = images \cup {[atlas |-> i, intCoords |-> g.ret[x]] : x \in DOMAIN g.ret}
         /\ tlast' = [NoAtlasCall EXCEPT !.op = "getBox", !.atlas = i, !.width = width,
                                         !.height = height, !.wrapped = wrapped,
                                         !.ret = g.ret, !.chosen = g.chosen,
                                         !.before = atlases[i].rects]
  /\ scen' = IF /\ scen >= 0 /\ scen = tops - 1 /\ atlasSize = ScenarioSize
                /\ width = 100 /\ height = 100 /\ ~wrapped
               THEN scen + 1 ELSE -1
  /\ UNCHANGED << atlasSize, allocVars, clientVars, commonVars, arraysVars, bufferVars, textureVars, cacheVars, shapeVars >>

\* an image placed by getBox is deleted: Image.__del__
DeallocateCall(img) ==
  /\ AtlasOpsLeft
  /\ tops' = tops + 1
  /\ atlases' = [atlases EXCEPT ![img.atlas] = DeallocateImage(@, img.intCoords)]
  /\ images' = images \ {img}
  /\ tlast' = [NoAtlasCall EXCEPT !.op = "deallocate", !.atlas = img.atlas,
                                  !.ret = << img.intCoords >>,
                                  !.before = atlases[img.atlas].rects,
                                  !.undo = IF /\ tlast.op \in {"getBox", "shaderGetBox"}
                                              /\ tlast.atlas = img.atlas
                                              /\ tlast.ret = << img.intCoords >>
                                             THEN << tlast.before >> ELSE << >>]
  /\ scen' = -1
  /\ UNCHANGED << atlasSize, allocVars, clientVars, commonVars, arraysVars, bufferVars, textureVars, cacheVars, shapeVars >>

NextAtlas ==
  \/ \E size \in {AtlasSize, ScenarioSize} : NewAtlasCall(size)
  \/ \E i \in DOMAIN atlases : \E width, height \in BoxSizes(atlasSize), wrapped \in BOOLEAN :
       AtlasGetBoxCall(i, width, height, wrapped)
  \/ \E img \in images : DeallocateCall(img)

SpecAtlas == Init /\ [][NextAtlas]_vars

\* SpriteShader.__init__: no atlas yet, the atlas size is probed
ShaderInitCall(size) ==
  /\ atlases = << >> /\ atlasSize = 0
  /\ tops' = tops + 1
  /\ atlasSize' = size
  /\ tlast' = [NoAtlasCall EXCEPT !.op = "shaderInit"]
  /\ UNCHANGED << atlases, images, scen, allocVars, clientVars, commonVars, arraysVars,
                  bufferVars, textureVars, cacheVars, shapeVars >>

\* shader.getBox(width, height, image, wrapped)
ShaderGetBoxCall(width, height, wrapped) ==
  /\ atlasSize > 0
  /\ AtlasOpsLeft
  /\ tops' = tops + 1
  /\ LET g == ShaderGetBox(atlases, atlasSize, width, height, wrapped)
     IN  /\ atlases' = g.atlases
         /\ images' = images \cup {[atlas |-> g.atlas, intCoords |-> g.ret[x]] : x \in DOMAIN g.ret}
         /\ tlast' = [NoAtlasCall EXCEPT !.op = "shaderGetBox", !.atlas = g.atlas,
                                         !.width = width, !.height = height,
                                         !.wrapped = wrapped, !.ret = g.ret,
                                         !.chosen = g.chosen, !.raised = g.raised,
                                         !.made = Len(g.atlases) - Len(atlases),
                                         !.before = IF g.atlas \in DOMAIN atlases
                                                      THEN atlases[g.atlas].rects
                                                      ELSE NewAtlas(atlasSize).rects]
  /\ scen' = -1
  /\ UNCHANGED << atlasSize, allocVars, clientVars, commonVars, arraysVars, bufferVars,
                  textureVars, cacheVars, shapeVars >>

NextShader ==
  \/ ShaderInitCall(AtlasSize)
  \/ \E width, height \in {1, AtlasSize - 1, AtlasSize}, wrapped \in BOOLEAN :
       ShaderGetBoxCall(width, height, wrapped)
  \/ \E img \in images : DeallocateCall(img)

SpecShader == Init /\ [][NextShader]_vars

\* TwoDTextureCommon.findTextureSize(minsize, maxsize) on some driver; the
\* function keeps no state, so one call is taken from the initial state
FindTextureSizeCall(minsize, maxsize, acc1, acc2) ==
  /\ xlast.op = "none"
  /\ LET f == FindTextureSize(minsize, maxsize, acc1, acc2)
     IN  xlast' = [NoTextureCall EXCEPT !.op = "findTextureSize", !.minsize = minsize,
                                        !.maxsize = maxsize, !.acc1 = acc1, !.acc2 = acc2,
                                        !.ret = f.ret, !.raised = f.raised, !.hung = f.hung]
  /\ UNCHANGED << allocVars, clientVars, commonVars, arraysVars, bufferVars, atlasVars, cacheVars, shapeVars >>

\* atlas.uploadToBox(image, rect, wrapped) for an image of the given size;
\* the check reads nothing but its arguments
UploadToBoxCall(size, rect, wrapped) ==
  /\ xlast.op = "none"
  /\ LET u == UploadToBox(size, rect, wrapped)
     IN  xlast' = [NoTextureCall EXCEPT !.op = "uploadToBox", !.size = size, !.rect = rect,
                                        !.wrapped = wrapped, !.raised = u.raised,
                                        !.uploads = u.uploads]
  /\ UNCHANGED << allocVars, clientVars, commonVars, arraysVars, bufferVars, atlasVars, cacheVars, shapeVars >>

NextTexture ==
  \/ \E minsize \in MinSizes, maxsize \in MaxSizes, acc1, acc2 \in SUBSET DriverSizes :
       FindTextureSizeCall(minsize, maxsize, acc1, acc2)
  \/ \E w, h \in 1 .. MaxImageSide, rw, rh \in RectSides, wrapped \in BOOLEAN :
       UploadToBoxCall(<< w, h >>, Rect(0, 0, rw, rh), wrapped)

SpecTexture == Init /\ [][NextTexture]_vars

\* GLCommon.bindUniform(bindFunc, [loc, ..., data], force)
BindUniformCall(loc, data, force) ==
  /\ glast.seq < MaxCacheOps
  /\ LET b == BindUniform(glCache, loc, data, force)
     IN  /\ glCache' = b.cache
         /\ glast' = [op |-> "bindUniform", loc |-> loc, data |-> data, force |-> force,
                      calls |-> b.calls, before |-> glCache, seq |-> glast.seq + 1]
  /\ UNCHANGED << allocVars, clientVars, commonVars, arraysVars, bufferVars, atlasVars,
                  textureVars, shapeVars >>

\* GLCommon.bindArray([index, ..., array], force)
GLBindArrayCall(index, array, force) ==
  /\ glast.seq < MaxCacheOps
  /\ LET b == GLBindArray(glCache, index, array, force)
     IN  /\ glCache' = b.cache
         /\ glast' = [op |-> "bindArray", loc |-> index, data |-> array, force |-> force,
                      calls |-> b.calls, before |-> glCache, seq |-> glast.seq + 1]
  /\ UNCHANGED << allocVars, clientVars, commonVars, arraysVars, bufferVars, atlasVars,
                  textureVars, shapeVars >>

NextCache ==
  \/ \E loc \in Locations, data \in DataObjects, force \in BOOLEAN :
       BindUniformCall(loc, data, force)
  \/ \E index \in Locations, array \in DataObjects, force \in BOOLEAN :
       GLBindArrayCall(index, array, force)

SpecCache == Init /\ [][NextCache]_vars

(***************************************************************************)
(* Calls on shapes.                                                        *)
(***************************************************************************)
\* the lowest number that no shape has
FreeId == Min({i \in DOMAIN shapes : shapes[i].state = "none"})

\* makeLayer calls GLCommon.updateLayers when getRenderSlots makes the layer
LayersAfter(after, layer, va) ==
  IF HasLayer(after, layer, va) /\ ~HasLayer(layers, layer, va)
    THEN UpdateLayers(glLayers, layer)
    ELSE glLayers

\* a shape is created on a layer; a Sprite comes from SpriteBuffer.createSprite,
\* which hands out a buffered sprite if it has one
CreateShapeCall(kind, layer) ==
  /\ ~hung /\ sops < MaxShapeOps
  /\ sops' = sops + 1
  /\ IF kind.class = "Sprite" /\ spriteBuffer # << >>
       THEN LET id == spriteBuffer[Len(spriteBuffer)]
            IN  /\ spriteBuffer' = SubSeq(spriteBuffer, 1, Len(spriteBuffer) - 1)
                /\ shapes' = [shapes EXCEPT ![id].state = "live"]
                /\ slast' = [NoShapeCall EXCEPT !.op = "pop", !.id = id, !.layer = layer,
                                                !.before = shapes[id]]
                /\ UNCHANGED << positions, layers, hung, glLayers >>
       ELSE /\ \E i \in DOMAIN shapes : shapes[i].state = "none"
            /\ LET va == kind.class
                   Made(s) ==
                     /\ layers' = s.layers
                     /\ hung' = s.hung
                     /\ glLayers' = LayersAfter(s.layers, layer, va)
                     /\ shapes' = [shapes EXCEPT ![FreeId] = s.shape]
                     /\ slast' = [NoShapeCall EXCEPT !.op = "create", !.id = FreeId,
                                                     !.layer = layer,
                                                     !.acquired = s.acquired,
                                                     !.uploads = s.uploads,
                                                     !.raised = s.raised]
                   Allocated(a) ==
                     /\ positions' = [positions EXCEPT ![va] = a.obj]
                     /\ Made(NewShape(layers, kind, layer, a.ret))
                   Found(c) ==
                     /\ c.ret
                     /\ Allocated(Allocate(c.obj, DataLen(kind)))
               IN  Found(CanAllocate(positions[va], DataLen(kind)))
            /\ UNCHANGED spriteBuffer
  /\ UNCHANGED << holders, clast, cops, frame, allocVars, arraysVars, bufferVars, atlasVars,
                  textureVars, cacheVars >>

\* shape.setLayer(layer)
SetLayerCall(id, layer) ==
  /\ ~hung /\ sops < MaxShapeOps
  /\ shapes[id].state = "live"
  /\ sops' = sops + 1
  /\ LET Moved(m) ==
           /\ layers' = m.layers
           /\ hung' = m.hung
           /\ glLayers' = LayersAfter(m.layers, layer, shapes[id].kind.class)
           /\ shapes' = [shapes EXCEPT ![id] = m.shape]
           /\ slast' = [NoShapeCall EXCEPT !.op = "setLayer", !.id = id, !.layer = layer,
                                           !.before = shapes[id],
                                           !.releases = m.releases, !.acquired = m.acquired,
                                           !.uploads = m.uploads, !.raised = m.raised]
     IN  Moved(ShapeSetLayer(layers, shapes[id], layer))
  /\ UNCHANGED << positions, spriteBuffer, holders, clast, cops, frame, allocVars,
                  arraysVars, bufferVars, atlasVars, textureVars, cacheVars >>

\* the last reference to a shape goes: __del__.  A Sprite is kept and reset
\* by its SpriteBuffer while the buffer is not full; otherwise it releases
\* its data slots and then its render slots.  The other shapes release their
\* render slots and then their data slots.
DelCall(id) ==
  /\ ~hung /\ sops < MaxShapeOps
  /\ shapes[id].state = "live"
  /\ sops' = sops + 1
  /\ LET sh == shapes[id]
         va == sh.kind.class
         WasReset(r) ==
           /\ spriteBuffer' = Append(spriteBuffer, id)
           /\ layers' = r.layers
           /\ hung' = r.hung
           /\ glLayers' = LayersAfter(r.layers, 0, va)
           /\ shapes' = [shapes EXCEPT ![id] = [r.shape EXCEPT !.state = "buffered"]]
           /\ slast' = [NoShapeCall EXCEPT !.op = "reset", !.id = id,
                                           !.before = sh,
                                           !.releases = r.releases,
                                           !.acquired = r.acquired,
                                           !.uploads = r.uploads,
                                           !.raised = r.raised]
           /\ UNCHANGED positions
         Destroyed(d) ==
           /\ layers' = d.layers
           /\ positions' = IF va = "Sprite" \/ d.raised = "none"
                             THEN [positions EXCEPT ![va] = Release(@, sh.slots)]
                             ELSE positions
           /\ shapes' = [shapes EXCEPT ![id] = NoShape]
           /\ slast' = [NoShapeCall EXCEPT !.op = "del", !.id = id,
                                           !.before = sh,
                                           !.releases = d.releases,
                                           !.raised = d.raised]
           /\ UNCHANGED << spriteBuffer, hung, glLayers >>
     IN  IF va = "Sprite" /\ Len(spriteBuffer) < BufferLength
           THEN WasReset(Reset(layers, sh))
           ELSE Destroyed(DelRelease(layers, sh))
  /\ UNCHANGED << holders, clast, cops, frame, allocVars, arraysVars, bufferVars, atlasVars,
                  textureVars, cacheVars >>

NextShapes ==
  \/ \E kind \in ShapeKinds, layer \in Layers : CreateShapeCall(kind, layer)
  \/ \E id \in DOMAIN shapes, layer \in Layers : SetLayerCall(id, layer)
  \/ \E id \in DOMAIN shapes : DelCall(id)

SpecShapes == Init /\ [][NextShapes]_vars

\* the record of a (region, list index) pair on a layer
RecordOf(layer, x) == layers[x[1]][layer].lists[x[2] + 1]

\* the record at list index x[2] of region x[1] on a layer, in self.layers = ls
RecordIn(ls, layer, x) == ls[x[1]][layer].lists[x[2] + 1]

\* the (region, layer, list index) triples of all the records of self.layers = ls
Keys(ls) ==
  UNION {UNION {{<< va, layer, i - 1 >> : i \in DOMAIN ls[va][layer].lists} :
                  layer \in DOMAIN ls[va]} : va \in DOMAIN ls}

\* the record named by a (region, layer, list index) triple
RecordAt(ls, k) == ls[k[1]][k[2]].lists[k[3] + 1]

\* the call just made on the client is op
ClientStep(op) == cops' = cops + 1 /\ clast'.op = op

(***************************************************************************)
(* Claims about the index-list records.                                    *)
(***************************************************************************)
\* C10: right after clean() on a record, min = min(A) and len = max(A) -
\* min(A) + 1 for its allocated-slot set A when A is not empty, so that
\* [min, min+len) holds min(A) and max(A); (min, len) = (0, 0) when A is empty.
C10_CleanRange ==
  clast.op = "doTasks" =>
    \A x \in clast.cleaned :
      LET rec == RecordOf(clast.layer, x)
      IN  IF rec.allocated # {}
            THEN /\ rec.min = Min(rec.allocated)
                 /\ rec.len = Max(rec.allocated) - Min(rec.allocated) + 1
                 /\ {Min(rec.allocated), Max(rec.allocated)} \subseteq
                       rec.min .. (rec.min + rec.len - 1)
            ELSE rec.min = 0 /\ rec.len = 0

\* clean has run on a record whose lowest slots had been released
C10_Witness ==
  /\ clast.op = "doTasks"
  /\ \E x \in clast.cleaned :
       /\ RecordOf(clast.layer, x).allocated # {}
       /\ RecordOf(clast.layer, x).min > 0


\* C11: in every reachable state of the client, every index-list record with a
\* non-empty pending-release list has its dirty flag set.
C11_PendingImpliesDirty ==
  \A k \in Keys(layers) : RecordAt(layers, k).pending # << >> => RecordAt(layers, k).dirty

\* slots were released on a record that housekeeping had cleaned before
C11_Witness ==
  /\ clast.op = "releaseRenderSlots"
  /\ \E k \in Keys(layers) :
       /\ RecordAt(layers, k).pending # << >>
       /\ RecordAt(layers, k).len # 0

\* C12: doTasks(layer) runs clean on exactly the records whose dirty flag is
\* set, before deciding on their draw: no draw call is issued for a record
\* that is dirty or has pending releases, and the decision uses the cleaned len.
C12_HousekeepingBeforeDraw ==
  [][\A l \in Layers :
       (ClientStep("doTasks") /\ clast'.layer = l) =>
         /\ clast'.cleaned = {x \in RecordKeys(layers, l) : RecordIn(layers, l, x).dirty}
         /\ \A d \in clast'.draws :
              /\ ~RecordIn(layers', l, << d.va, d.indx >>).dirty
              /\ RecordIn(layers', l, << d.va, d.indx >>).pending = << >>
         /\ \A x \in clast'.cleaned :
              (\E d \in clast'.draws : d.va = x[1] /\ d.indx = x[2])
                <=> RecordIn(layers', l, x).len # 0]_vars

\* doTasks cleaned a record and then drew it
C12_Witness ==
  /\ clast.op = "doTasks"
  /\ \E d \in clast.draws : << d.va, d.indx >> \in clast.cleaned

\* C13, as claimed: getRenderSlots(n, layer, region) returns for every n
\* smaller than the record capacity, whatever records exist for (region, layer).
C13_GetRenderSlotsReturns ==
  (clast.op = "getRenderSlots" /\ clast.n < IndicesLength) => ~hung

\* C14: when getRenderSlots(n, layer, region) returns (slots, listIndex), slots
\* are n contiguous ascending indices inside [0, capacity) taken from the free
\* indices of record listIndex, which are no longer free afterwards; all of
\* them are added to that record's allocated set and its dirty flag is set.
C14_RenderSlotsContiguous ==
  [][\A l \in Layers, va \in Regions :
       (/\ ClientStep("getRenderSlots") /\ clast'.layer = l /\ clast'.va = va
        /\ clast'.raised = "none" /\ ~hung') =>
         LET s == clast'.slots
             x == << va, clast'.indx >>
             old == HasLayer(layers, l, va) /\ x[2] < Len(layers[va][l].lists)
             preFree == IF old THEN FreeSet(RecordIn(layers, l, x).slots.slices)
                        ELSE 0 .. (IndicesLength - 1)
             preAllocated == IF old THEN RecordIn(layers, l, x).allocated ELSE {}
             post == RecordIn(layers', l, x)
         IN  /\ Len(s) = clast'.n
             /\ \A i \in 1 .. (Len(s) - 1) : s[i + 1] = s[i] + 1
             /\ Range(s) \subseteq 0 .. (IndicesLength - 1)
             /\ Range(s) \subseteq preFree
             /\ FreeSet(post.slots.slices) = preFree \ Range(s)
             /\ post.allocated = preAllocated \cup Range(s)
             /\ post.dirty]_vars

\* getRenderSlots returned several slots from a record already in use
C14_Witness ==
  /\ clast.op = "getRenderSlots" /\ clast.raised = "none" /\ ~hung
  /\ Len(clast.slots) >= 2
  /\ clast.slots[1] > 0

\* C15: releaseRenderSlots sets the record's dirty flag, appends the slots to
\* its pending list and releases them to its allocator; the record's index
\* array, min, len and allocated set, and every other record, are unchanged;
\* no call other than housekeeping removes a slot from an allocated set.
C15_ReleaseRenderSlotsFrame ==
  [][/\ \A h \in holders :
          (/\ ClientStep("releaseRenderSlots") /\ clast'.slots = h.slots
           /\ clast'.layer = h.layer /\ clast'.indx = h.indx /\ clast'.va = h.va) =>
            LET k == << h.va, h.layer, h.indx >>
                pre == RecordAt(layers, k)
                post == RecordAt(layers', k)
            IN  /\ post.dirty
                /\ post.pending = pre.pending \o h.slots
                /\ FreeSet(post.slots.slices) = FreeSet(pre.slots.slices) \cup Range(h.slots)
                /\ Len(post.slots.slices) = Len(pre.slots.slices) + 1
                /\ post.indices = pre.indices
                /\ post.min = pre.min /\ post.len = pre.len
                /\ post.startAddress = pre.startAddress
                /\ post.allocated = pre.allocated
                /\ Keys(layers') = Keys(layers)
                /\ \A o \in Keys(layers) \ {k} : RecordAt(layers', o) = RecordAt(layers, o)
     /\ clast'.op # "doTasks" =>
          \A k \in Keys(layers) :
            RecordAt(layers, k).allocated \subseteq RecordAt(layers', k).allocated]_vars

\* slots were released that are still in the allocated set of a drawn record
C15_Witness ==
  /\ clast.op = "releaseRenderSlots"
  /\ \E k \in Keys(layers) :
       /\ k = << clast.va, clast.layer, clast.indx >>
       /\ Range(clast.slots) \subseteq RecordAt(layers, k).allocated
       /\ Range(clast.slots) \subseteq Range(RecordAt(layers, k).pending)
       /\ RecordAt(layers, k).len > Len(clast.slots)

\* no free range of an allocator starts where another one ends
NoAdjacent(s) == \A i, j \in DOMAIN s : s[i].e # s[j].b

\* C16: after clean(record), the index-array entries at the pending slots are
\* 0 and the others unchanged, exactly the pending slots have left the
\* allocated set, the pending list is empty, the dirty flag is False and no
\* two free ranges of the record's allocator are adjacent.
C16_CleanPostState ==
  [][\A l \in Layers :
       (ClientStep("doTasks") /\ clast'.layer = l) =>
         \A x \in clast'.cleaned :
           LET pre == RecordIn(layers, l, x)
               post == RecordIn(layers', l, x)
           IN  /\ \A i \in DOMAIN pre.indices :
                    post.indices[i] = IF i \in Range(pre.pending) THEN 0 ELSE pre.indices[i]
               /\ post.allocated = pre.allocated \ Range(pre.pending)
               /\ post.pending = << >>
               /\ ~post.dirty
               /\ NoAdjacent(post.slots.slices)
               /\ FreeSet(post.slots.slices) = FreeSet(pre.slots.slices)]_vars

\* clean ran on a record that keeps uploaded data above its released slots
C16_Witness ==
  /\ clast.op = "doTasks"
  /\ \E x \in clast.cleaned :
       LET rec == RecordOf(clast.layer, x)
       IN  /\ rec.min > 0
           /\ \E i \in rec.allocated : rec.indices[i] # 0
           /\ Len(rec.slots.slices) = 1

\* C19: every draw call of doTasks(layer) is for a record with a non-zero
\* active length, passes count = len = max(allocated) - min(allocated) + 1 and
\* the start address base + min * sizeOfIndices; a record whose active length
\* is 0 gets no draw call (and none of the binds that go with it).
C19_DrawCoversActiveRange ==
  clast.op = "doTasks" =>
    \A x \in RecordKeys(layers, clast.layer) :
      LET rec == RecordOf(clast.layer, x)
          ds == {d \in clast.draws : d.va = x[1] /\ d.indx = x[2]}
      IN  IF rec.len = 0
            THEN ds = {}
            ELSE /\ ds = {[va |-> x[1], indx |-> x[2], count |-> rec.len,
                           start |-> SizeOfIndices * rec.min]}
                 /\ rec.allocated # {}
                 /\ rec.min = Min(rec.allocated)
                 /\ rec.len = Max(rec.allocated) - Min(rec.allocated) + 1

\* doTasks issued a draw call that starts above the base of the index array
C19_Witness ==
  /\ clast.op = "doTasks"
  /\ \E d \in clast.draws : d.start > 0 /\ d.count >= 2

\* C17, as claimed: uploadSlotData fails, writing nothing, whenever the region
\* is unknown, the layer does not exist for it or listIndex is not the index
\* of an existing record of (region, layer); otherwise it writes data[i] at
\* position slots[i] of that record's index array and changes nothing else.
C17_UploadChecksTarget ==
  [][\A l \in Layers, va \in Regions \cup {OtherRegion} :
       (ClientStep("uploadSlotData") /\ clast'.layer = l /\ clast'.va = va) =>
         IF HasLayer(layers, l, va) /\ clast'.indx \in 0 .. (Len(layers[va][l].lists) - 1)
           THEN /\ clast'.raised = "none"
                /\ layers' = SetRecord(layers, l, va, clast'.indx,
                               [RecordAt(layers, << va, l, clast'.indx >>) EXCEPT
                                  !.indices = [i \in DOMAIN @ |->
                                     IF \E x \in DOMAIN clast'.slots : clast'.slots[x] = i
                                       THEN clast'.data[CHOOSE x \in DOMAIN clast'.slots :
                                                          clast'.slots[x] = i]
                                       ELSE @[i]]])
           ELSE /\ clast'.raised # "none"
                /\ layers' = layers]_vars

\* C18, as claimed: getVertexArrays(n) returns the first owned region with
\* at least n free slots, creates and registers a new region of capacity
\* 65535 only when no owned region has at least n free slots, and the region
\* returned is registered with the client afterwards.
C18_FirstRegionWithRoom ==
  [][(aops' = aops + 1 /\ alast'.op = "getVertexArrays") =>
       LET roomy == {i \in DOMAIN vertexArraysD : FreeSlots(vertexArraysD[i]) >= alast'.n}
       IN  /\ \E i \in DOMAIN vertexArraysD' : vertexArraysD'[i].id = alast'.ret
           /\ IF roomy # {}
                THEN /\ ~alast'.created
                     /\ alast'.ret = vertexArraysD[Min(roomy)].id
                     /\ Len(vertexArraysD') = Len(vertexArraysD)
                ELSE /\ alast'.created
                     /\ Len(vertexArraysD') = Len(vertexArraysD) + 1
                     /\ vertexArraysD'[RegionIdx(vertexArraysD', alast'.ret)].positions
                          = NewSlices(0, 65535)]_vars

\* C20: within one frame the layers are visited in strictly ascending order,
\* each registered layer exactly once, so every draw call of a lower layer is
\* issued before every draw call of a higher layer, whatever the order in
\* which the layers were registered.
C20_LayersAscending ==
  clast.op = "frame" =>
    /\ \A i, j \in DOMAIN frame : i < j => frame[i].layer < frame[j].layer
    /\ {frame[i].layer : i \in DOMAIN frame} = Range(glLayers)
    /\ \A va \in DOMAIN layers : DOMAIN layers[va] \subseteq Range(glLayers)
    /\ \A i \in DOMAIN glLayers : i > 1 => glLayers[i - 1] < glLayers[i]

\* a frame issued draw calls on two layers, with a third layer registered
C20_Witness ==
  /\ clast.op = "frame"
  /\ Len(frame) = 3
  /\ \E i, j \in DOMAIN frame : i < j /\ frame[i].draws # {} /\ frame[j].draws # {}

(***************************************************************************)
(* Claims about buffer regions.                                            *)
(***************************************************************************)
\* C21, as claimed: every setter call adds the written array to the dirty set
\* and, for a dynamic array and a slot list in any order, leaves min(dirtyMin)
\* <= the lowest and max(dirtyMax) >= the highest element index it wrote.
C21_SetterCoversSpan ==
  vlast.op = "set" =>
    LET w == Written(vlast.slots, vlast.at.size, vlast.offset)
        r == vertexArrays.dirtyRange[vlast.at.array]
    IN  /\ vlast.at.array \in vertexArrays.dirty
        /\ Dynamic(vlast.at.array) =>
             /\ r.mins # {} /\ r.maxs # {}
             /\ Min(r.mins) <= Min(w)
             /\ Max(r.maxs) >= Max(w)

\* C22, as claimed: bind() uploads each array marked dirty once, a static
\* array in full and a dynamic one over [dirtyMin, dirtyMax] in bytes; when it
\* returns the dirty set is empty and so is the dirty range of every array
\* that was dirty; an array that is not dirty is not uploaded.
C22_BindUploadsDirty ==
  [][(vops' = vops + 1 /\ vlast'.op = "bind") =>
       LET ups == vlast'.uploads
       IN  /\ vlast'.raised = "none"
           /\ {ups[i].array : i \in DOMAIN ups} = vertexArrays.dirty
           /\ \A i, j \in DOMAIN ups : ups[i].array = ups[j].array => i = j
           /\ \A i \in DOMAIN ups :
                LET a == ups[i].array
                IN  IF Dynamic(a)
                      THEN /\ ups[i].call = "glBufferSubData"
                           /\ ups[i].offset = Min(vertexArrays.dirtyRange[a].mins) * ElemBytes(a)
                           /\ ups[i].size = (Max(vertexArrays.dirtyRange[a].maxs)
                                               - Min(vertexArrays.dirtyRange[a].mins) + 1) * ElemBytes(a)
                      ELSE /\ ups[i].call = "glBufferData"
                           /\ ups[i].offset = 0
                           /\ ups[i].size = ArrayLen * ElemBytes(a)
           /\ vertexArrays'.dirty = {}
           /\ \A a \in vertexArrays.dirty :
                vertexArrays'.dirtyRange[a].mins = {} /\ vertexArrays'.dirtyRange[a].maxs = {}]_vars


(***************************************************************************)
(* Claims about the texture atlas                                          *)
(***************************************************************************)
\* the free rectangles of atlas i and the placements that are live on it
FreeRects(i) == atlases[i].rects
LiveOn(i) == {img.intCoords : img \in {m \in images : m.atlas = i}}

\* C23: in every atlas state reached by getBox calls and by deallocations of
\* images that getBox placed, the free rectangles are pairwise
\* non-overlapping, lie inside the size x size texture and overlap no live
\* placement.
C23_FreeRectsDisjoint ==
  \A i \in DOMAIN atlases :
    /\ \A j, k \in DOMAIN FreeRects(i) :
         j # k => ~Overlap(FreeRects(i)[j], FreeRects(i)[k])
    /\ \A j \in DOMAIN FreeRects(i) : Inside(FreeRects(i)[j], atlases[i].size)
    /\ \A j \in DOMAIN FreeRects(i) : \A p \in LiveOn(i) : ~Overlap(FreeRects(i)[j], p)

\* a deallocation has put a box back next to other free rectangles while
\* another image is still placed
C23_Witness ==
  /\ tlast.op = "deallocate"
  /\ Len(FreeRects(tlast.atlas)) >= 3
  /\ LiveOn(tlast.atlas) # {}

\* the width and the height that the last getBox looked for
FindWidth == tlast.width + (IF tlast.wrapped THEN 2 ELSE 0) + Border
FindHeight == tlast.height + (IF tlast.wrapped THEN 2 ELSE 0) + Border

\* the positions in the free list of the candidates of the last getBox
CandidatesOfLast ==
  {j \in DOMAIN tlast.before :
     tlast.before[j].width > FindWidth /\ tlast.before[j].height > FindHeight}

\* the candidates of least wastage
BestOfLast ==
  {j \in CandidatesOfLast :
     \A k \in CandidatesOfLast : tlast.before[j].area <= tlast.before[k].area}

\* C24: getBox(w, h, wrapped) with W = w + border (+2 if wrapped) and H
\* likewise has as candidates exactly the free rectangles of width > W and
\* height > H; it returns null iff there is none; otherwise it places the
\* image at the top-left corner of the candidate of least area - W*H, the
\* first one in free-list order on ties, in an integer rectangle W x H.
C24_BestFit ==
  tlast.op = "getBox" =>
    /\ (tlast.ret = << >>) <=> (CandidatesOfLast = {})
    /\ CandidatesOfLast # {} =>
         LET c == tlast.before[Min(BestOfLast)]
         IN  /\ tlast.chosen = << c >>
             /\ tlast.ret = << Rect(c.x, c.y, FindWidth, FindHeight) >>

\* a getBox chose between two candidates of the same least wastage, and the
\* first candidate in the list was not among the best
C24_Witness ==
  /\ tlast.op = "getBox"
  /\ tlast.ret # << >>
  /\ Cardinality(BestOfLast) >= 2
  /\ Min(BestOfLast) # Min(CandidatesOfLast)

\* the residual rectangles that the last successful getBox appended
ResidualsOfLast ==
  SubSeq(FreeRects(tlast.atlas), Len(tlast.before), Len(FreeRects(tlast.atlas)))

\* C25: on success the chosen rectangle is removed and replaced by at most
\* two residuals of non-zero area; the placed rectangle and the residuals
\* are pairwise disjoint and cover the chosen rectangle exactly; the
\* residual of full length lies along the axis whose full-length strip has
\* the larger area; the other free rectangles are unchanged.
C25_SplitExact ==
  (tlast.op = "getBox" /\ tlast.ret # << >>) =>
    LET c == tlast.chosen[1]
        p == tlast.ret[1]
        res == ResidualsOfLast
        parts == << p >> \o res
        right == Rect(c.x + FindWidth, c.y, c.width - FindWidth, c.height)
        below == Rect(c.x, c.y + FindHeight, c.width, c.height - FindHeight)
    IN  /\ FreeRects(tlast.atlas) = RemoveFirst(tlast.before, c) \o res
        /\ Len(res) <= 2
        /\ \A j \in DOMAIN res : res[j].area > 0 /\ res[j].area = res[j].width * res[j].height
        /\ \A j, k \in DOMAIN parts : j # k => ~Overlap(parts[j], parts[k])
        /\ \A j \in DOMAIN parts :
             /\ c.x <= parts[j].x /\ parts[j].x + parts[j].width <= c.x + c.width
             /\ c.y <= parts[j].y /\ parts[j].y + parts[j].height <= c.y + c.height
        /\ TotalArea(parts, 1) = c.area
        /\ right.area > below.area => \E j \in DOMAIN res : res[j] = right
        /\ below.area > right.area => \E j \in DOMAIN res : res[j] = below

\* a getBox split a rectangle whose strip below is the larger one, with
\* other free rectangles in the list
C25_Witness ==
  /\ tlast.op = "getBox" /\ tlast.ret # << >>
  /\ Len(tlast.before) >= 2
  /\ (tlast.chosen[1].height - FindHeight) * tlast.chosen[1].width
       > (tlast.chosen[1].width - FindWidth) * tlast.chosen[1].height

\* C26: a getBox directly followed by the deallocation of the image it
\* returned leaves the total free area what it was before the getBox, and
\* the freed rectangle is appended as it is, without merging.
C26_RoundTripArea ==
  (tlast.op = "deallocate" /\ tlast.undo # << >>) =>
    /\ TotalArea(FreeRects(tlast.atlas), 1) = TotalArea(tlast.undo[1], 1)
    /\ FreeRects(tlast.atlas) = Append(tlast.before, tlast.ret[1])

\* an image was deallocated right after its getBox, on an atlas that already
\* held other free rectangles
C26_Witness ==
  /\ tlast.op = "deallocate" /\ tlast.undo # << >>
  /\ Len(tlast.undo[1]) >= 2

\* C27: on a fresh 512 x 512 atlas with border 1, six consecutive
\* non-wrapped getBox(100, 100) all succeed and the six integer rectangles
\* returned are pairwise disjoint.
C27_SixBoxes ==
  scen \in 1 .. ScenarioBoxes =>
    /\ tlast.ret # << >>
    /\ Cardinality(images) = scen
    /\ \A m, n \in images : m # n => ~Overlap(m.intCoords, n.intCoords)
    /\ \A m \in images : m.intCoords.width = 101 /\ m.intCoords.height = 101

\* the sixth box of the scenario has been asked for
C27_Witness == scen = ScenarioBoxes /\ atlasSize = ScenarioSize

\* C28: SpriteShader.getBox(w, h, wrapped) either returns a placement that
\* lies entirely inside one atlas (an existing one, or one new empty atlas)
\* or raises an allocation error; it never returns None.
C28_ShaderGetBoxNeverNone ==
  tlast.op = "shaderGetBox" =>
    \/ tlast.raised = "CannotAllocateError" /\ tlast.ret = << >> /\ tlast.made = 0
    \/ /\ tlast.raised = "none"
       /\ tlast.ret # << >>
       /\ tlast.made \in {0, 1}
       /\ tlast.atlas \in DOMAIN atlases
       /\ Inside(tlast.ret[1], atlases[tlast.atlas].size)
       /\ [atlas |-> tlast.atlas, intCoords |-> tlast.ret[1]] \in images

\* the size at which the two loops of the last findTextureSize stop
StoppedAt == HalveUntil(HalveUntil(xlast.maxsize, xlast.acc1), xlast.acc2)

\* C29: findTextureSize(minsize, maxsize) halves from maxsize and returns a
\* size the driver accepts whenever an accepted size >= minsize is reached
\* (a size equal to minsize included); it raises MemoryError only if no
\* size >= minsize is accepted.
C29_FindTextureSizeReturns ==
  xlast.op = "findTextureSize" =>
    /\ (StoppedAt > 0 /\ StoppedAt >= xlast.minsize) =>
         /\ xlast.raised = "none"
         /\ xlast.ret = StoppedAt
         /\ xlast.ret \in xlast.acc2
    /\ xlast.raised = "MemoryError" => StoppedAt < xlast.minsize

\* the size that the last uploadToBox compared with the rectangle
UploadSize == IF xlast.wrapped THEN GetSizeWrapped(xlast.size) ELSE xlast.size

\* C30: uploadToBox(image, rect, wrapped) raises CannotBlitIntoError and
\* uploads nothing whenever the image (its wrapped size if wrapped) is larger
\* than rect in width or in height; it uploads only when the image's width
\* <= rect.width and its height <= rect.height.
C30_UploadFailsFast ==
  xlast.op = "uploadToBox" =>
    /\ (UploadSize[1] > xlast.rect.width \/ UploadSize[2] > xlast.rect.height) =>
         xlast.raised = "CannotBlitIntoError" /\ xlast.uploads = << >>
    /\ xlast.uploads # << >> =>
         UploadSize[1] <= xlast.rect.width /\ UploadSize[2] <= xlast.rect.height

(***************************************************************************)
(* Further claims about Slices.                                            *)
(***************************************************************************)
\* C33, as claimed: the range cached by a successful canAllocate(n) stays
\* valid until allocate(n), whatever canAllocate, join and release calls come
\* in between: allocate(n) returns only indices that are free at that
\* moment, removes exactly those from the free set and returns no index that
\* is outstanding.
C33_CachedRangeStaysValid ==
  [][(last'.op = "allocate" /\ ~last'.raised /\ slicesObj.allocating = last'.n)
       => /\ Range(last'.out) \subseteq FreeSet(slicesObj.slices)
          /\ FreeSet(slicesObj'.slices) = FreeSet(slicesObj.slices) \ Range(last'.out)
          /\ Range(last'.out) \cap BagToSet(outstanding) = {}]_vars

\* C34, as claimed: in every state reached by canAllocate, allocate, release
\* and join the integers of the free ranges and the outstanding indices are
\* disjoint and together are exactly the domain [start, end).
C34_NoIndexLost ==
  /\ FreeSet(slicesObj.slices) \cap BagToSet(outstanding) = {}
  /\ FreeSet(slicesObj.slices) \cup BagToSet(outstanding) = Domain

\* C35: no free range is ever empty, the highest index end-1 is never handed
\* out, and at most end - start - 1 indices are outstanding at once.
C35_LastIndexNeverHandedOut ==
  /\ \A i \in DOMAIN slicesObj.slices : slicesObj.slices[i].b < slicesObj.slices[i].e
  /\ (End - 1) \notin BagToSet(outstanding)
  /\ (End - 1) \notin Range(last.out)
  /\ Cardinality(BagToSet(outstanding)) <= DomainSize - 1

\* every index but the highest is outstanding and a canAllocate(1) has just
\* been refused on the one free range left
C35_Witness ==
  /\ BagToSet(outstanding) = Domain \ {End - 1}
  /\ last.op = "canAllocate" /\ last.n = 1 /\ ~last.ret
  /\ Ranges(slicesObj.slices) = << << End - 1, End >> >>

(***************************************************************************)
(* Further claims about the index-list records.                            *)
(***************************************************************************)
\* C32, as claimed: slots released and handed out again by getRenderSlots
\* before the next clean() survive housekeeping: after doTasks has cleaned a
\* record, every slot a shape holds on it is still in the allocated set,
\* lies inside [min, min+len) and holds the index data it held before.
C32_ReallocatedSlotsSurvive ==
  [][ClientStep("doTasks")
       => \A h \in holders :
            << h.va, h.indx >> \in clast'.cleaned /\ h.layer = clast'.layer
              => LET before == RecordIn(layers, h.layer, << h.va, h.indx >>)
                     after == RecordIn(layers', h.layer, << h.va, h.indx >>)
                 IN  \A s \in Range(h.slots) :
                       /\ s \in after.allocated
                       /\ after.min <= s /\ s < after.min + after.len
                       /\ after.indices[s] = before.indices[s]]_vars

(***************************************************************************)
(* Claims about the GL-state cache.                                        *)
(***************************************************************************)
\* C31, as claimed: bindUniform(func, args, force=False) issues the driver
\* call only if the data object last bound to location args[0] differs from
\* args[-1]; of two consecutive bindUniform calls with the same location,
\* the same data object and force=False the second issues none; and
\* bindUniform never modifies boundArrays.
C31_BindUniformCached ==
  [][(glast'.op = "bindUniform" /\ glast'.seq = glast.seq + 1)
       => /\ glCache'.boundArrays = glCache.boundArrays
          /\ (glast.op = "bindUniform" /\ glast.loc = glast'.loc
                /\ glast.data = glast'.data /\ ~glast'.force)
               => glast'.calls = 0]_vars

(***************************************************************************)
(* Further claims about buffer regions.                                    *)
(***************************************************************************)
\* C36, as claimed: after bind() has returned, for every array that has a
\* location in the bound shader the GPU-side buffer equals the CPU-side
\* array, for any earlier setter calls on slot lists as getDataSlots returns
\* them and earlier bind() calls: every element a setter has written is in
\* the buffer's data store with the value of the CPU-side array.
C36_GpuEqualsCpu ==
  (vlast.op = "bind" /\ vlast.raised = "none" /\ vlast.ordered) =>
    \A a \in ShaderArrays :
      \A e \in DOMAIN vertexArrays.arraysR[a] :
        vertexArrays.arraysR[a][e] # 0 =>
          /\ (e + 1) * ElemBytes(a) <= vertexArrays.gpu[a].size
          /\ vertexArrays.gpu[a].elems[e] = vertexArrays.arraysR[a][e]

\* the glBufferSubData calls of the last bind()
PartialUploads ==
  {vlast.uploads[i] : i \in {k \in DOMAIN vlast.uploads :
                               vlast.uploads[k].call = "glBufferSubData"}}

\* C37: every partial upload of a dynamic array that bind() issues stays
\* inside the array: in element units, 0 <= mn and mn + (mx - mn + 1) <= the
\* number of elements of the array, for setter calls on slots handed out by
\* getDataSlots.
C37_PartialUploadInside ==
  vlast.op = "bind" =>
    \A u \in PartialUploads :
      /\ 0 <= u.offset
      /\ (u.offset + u.size) \div ElemBytes(u.array) <= ArrayLen

\* bind() has uploaded up to the element after the last component of the
\* record of the highest slot that getDataSlots hands out
C37_Witness ==
  /\ vlast.op = "bind"
  /\ \E u \in PartialUploads :
       (u.offset + u.size) \div ElemBytes(u.array) = (VaNoSlots - 1) * NoAttribs + 1

(***************************************************************************)
(* Further claims about the texture atlases.                               *)
(***************************************************************************)
\* C38, as claimed: findTextureSize terminates for every driver behaviour,
\* a driver that accepts no size included, and then either returns a size
\* or raises MemoryError.
C38_FindTextureSizeTerminates ==
  xlast.op = "findTextureSize" =>
    /\ ~xlast.hung
    /\ xlast.raised = "MemoryError" \/ xlast.ret > 0

(***************************************************************************)
(* Claims about shapes.                                                    *)
(***************************************************************************)
\* C39, as claimed: setLayer(new) with new # the current layer, on a shape
\* that holds k render slots with k index entries in _rdata, moves the shape
\* without changing its size: the k old slots are released on the old
\* layer's record, exactly k contiguous render slots are acquired on the new
\* layer, and all k entries of _rdata are uploaded to them.
C39_SetLayerKeepsSize ==
  (/\ slast.op = "setLayer"
   /\ slast.layer # slast.before.layer
   /\ slast.before.rslots # << >>
   /\ Len(slast.before.rslots) = Len(slast.before.rdata)) =>
    LET old == slast.before
        k == Len(old.rdata)
    IN  /\ Len(slast.releases) = 1
        /\ slast.releases[1].slots = old.rslots
        /\ slast.releases[1].layer = old.layer
        /\ slast.releases[1].indx = old.rindex
        /\ Len(slast.acquired) = 1
        /\ slast.acquired[1].layer = slast.layer
        /\ slast.acquired[1].ret = XRange(slast.acquired[1].ret[1], k)
        /\ slast.raised = "none"
        /\ \A i \in 1 .. k :
             RecordAt(layers, << old.kind.class, slast.layer, slast.acquired[1].indx >>)
               .indices[slast.acquired[1].ret[i]] = old.rdata[i]

\* C40, as claimed: a shape's render slots are always released to the
\* index-list record they were allocated from: in every sequence of
\* creations, setLayer calls, resets by a SpriteBuffer and destructions each
\* releaseRenderSlots call names the layer and list index of the record that
\* handed out the slots, the reset of a sprite on a non-zero layer included.
C40_ReleasedToOwnRecord ==
  \A i \in DOMAIN slast.releases :
    << slast.releases[i].layer, slast.releases[i].indx >> = slast.releases[i].home

=============================================================================
